---- MODULE Spec2Model ----
(***************************************************************************)
(* Risk-scoring and alert-dispatch pipeline of astro-tracker-server.        *)
(*                                                                          *)
(* Numbers.  Lunar distances are carried in tenths of a lunar distance     *)
(* (0.5 LD = 5, 25.5 LD = 255); diameters in metres and velocities in km/s  *)
(* are integers.  A sub-score s in [0,100] is carried exactly as the       *)
(* integer s * Q, so that the weighted sum and Math.round are computed on   *)
(* exact fractions.  Diameters are powers of ten (or 0), on which Log10 is  *)
(* exact.  An optional value (a field that may be undefined) is the empty   *)
(* set or a singleton.                                                      *)
(*                                                                          *)
(* Time.  The clock counts ticks; TicksPerDay ticks make 24 hours.          *)
(***************************************************************************)
EXTENDS Integers, Sequences, FiniteSets, TLC

VARIABLES
    clock,        \* current time, in ticks
    asteroids,    \* Asteroid collection: neo_reference_id -> {} or {document}
    users,        \* User collection: user id -> [alertSettings, watched_asteroid_ids]
    alerts,       \* Alert collection: a set of documents
    emitted,      \* Socket.IO events published so far
    run,          \* pipeline runs: slot -> position and locals of the async function
    started,      \* number of runs started so far
    faults,       \* number of store/feed failures so far
    userOps,      \* number of user-facing requests so far
    neoIn,        \* SpecScore: the object handed to the scorer
    risk,         \* SpecScore: {} before scoring, {result} after
    sockets,      \* Socket.IO clients: client -> [connected, rooms]
    received,     \* the events each client has been sent
    socketOps     \* number of socket events so far

vars == <<clock, asteroids, users, alerts, emitted, run, started,
          faults, userOps, neoIn, risk, sockets, received, socketOps>>
pipeVars == <<clock, asteroids, users, alerts, emitted, run, started,
              faults, userOps>>
scoreVars == <<neoIn, risk>>
socketVars == <<sockets, received, socketOps>>

----------------------------------------------------------------------------
(* Bounds of the model *)

TicksPerDay == 2    \* clock resolution: ticks per 24 hours
MaxTime == 3        \* the clock stops here
MaxRuns == 2        \* pipeline runs and sweeps started in one behaviour
MaxFaults == 1      \* store and feed failures in one behaviour
MaxUserOps == 1     \* user-facing requests in one behaviour
MaxSocketOps == 2   \* socket events (connection, join, leave) in one behaviour

Runs == {1, 2}
Users == {"u1", "u2"}
Clients == {"c1", "c2"}
UserOrder == <<"u1", "u2">>
AstOrder == <<"a1", "a2">>
AstIds == {AstOrder[k] : k \in 1..Len(AstOrder)}

----------------------------------------------------------------------------
(* Optional values *)

Undefined == {}
Some(v) == {v}
Has(x) == x # {}
Val(x) == CHOOSE v \in x : TRUE
\* JavaScript truthiness of an optional number: undefined and 0 are falsy
Truthy(x) == Has(x) /\ Val(x) # 0
\* x ?? y
Coalesce(x, y) == IF Has(x) THEN x ELSE y
\* parseFloat(s) || 0 of an optional numeric string
ParseFloatOr0(x) == IF Truthy(x) THEN Val(x) ELSE 0

Min(a, b) == IF a < b THEN a ELSE b
Max(a, b) == IF a > b THEN a ELSE b

----------------------------------------------------------------------------
(* riskEngine.js *)

MAX_DIAMETER == 1000
MAX_VELOCITY == 30
MIN_SAFE_DISTANCE == 1
MAX_CONCERNING_DISTANCE == 50

\* denominator of the exact sub-score fractions: 3 = log10(MAX_DIAMETER) and
\* 30 = MAX_VELOCITY divide 100 * 3, 49 = MAX_CONCERNING - MIN_SAFE
Q == 3 * 49
\* a lunar distance given in whole LD, in tenths
Tenths(ld) == ld * 10

RECURSIVE Log10(_)
\* Math.log10 on a positive integer; exact on powers of ten
Log10(d) == IF d < 10 THEN 0 ELSE 1 + Log10(d \div 10)

\* Math.min(100, Math.max(0, s)) on a sub-score carried as s * Q
Clamp0to100(sQ) == Min(100 * Q, Max(0, sQ))

calculateDiameterScore(diameterMeters) ==
    IF ~Truthy(diameterMeters) \/ Val(diameterMeters) <= 0 THEN 0
    ELSE Clamp0to100((Log10(Val(diameterMeters)) * 100 * Q) \div Log10(MAX_DIAMETER))

\* variant: an unknown distance contributes nothing
calculateDistanceScore_UnknownZero(lunarDistance) ==
    IF ~Truthy(lunarDistance) \/ Val(lunarDistance) <= 0 THEN 0
    ELSE IF Val(lunarDistance) <= Tenths(MIN_SAFE_DISTANCE) THEN 100 * Q
    ELSE IF Val(lunarDistance) >= Tenths(MAX_CONCERNING_DISTANCE) THEN 0
    ELSE Clamp0to100(((Tenths(MAX_CONCERNING_DISTANCE) - Val(lunarDistance)) * 100 * Q)
                     \div (Tenths(MAX_CONCERNING_DISTANCE) - Tenths(MIN_SAFE_DISTANCE)))

calculateDistanceScore(lunarDistance) ==
    IF ~Truthy(lunarDistance) \/ Val(lunarDistance) <= 0 THEN 100 * Q
    ELSE IF Val(lunarDistance) <= Tenths(MIN_SAFE_DISTANCE) THEN 100 * Q
    ELSE IF Val(lunarDistance) >= Tenths(MAX_CONCERNING_DISTANCE) THEN 0
    ELSE Clamp0to100(((Tenths(MAX_CONCERNING_DISTANCE) - Val(lunarDistance)) * 100 * Q)
                     \div (Tenths(MAX_CONCERNING_DISTANCE) - Tenths(MIN_SAFE_DISTANCE)))

\* variant: the velocity score is not capped at 100
calculateVelocityScore_Unclamped(velocityKmS) ==
    IF ~Truthy(velocityKmS) \/ Val(velocityKmS) <= 0 THEN 0
    ELSE (Val(velocityKmS) * 100 * Q) \div MAX_VELOCITY

calculateVelocityScore(velocityKmS) ==
    IF ~Truthy(velocityKmS) \/ Val(velocityKmS) <= 0 THEN 0
    ELSE Clamp0to100((Val(velocityKmS) * 100 * Q) \div MAX_VELOCITY)

\* variant: the moderate band is missing
getRiskCategory_NoModerate(score) ==
    IF score >= 76 THEN "high"
    ELSE IF score >= 26 THEN "low"
    ELSE "minimal"

getRiskCategory(score) ==
    IF score >= 76 THEN "high"
    ELSE IF score >= 51 THEN "moderate"
    ELSE IF score >= 26 THEN "low"
    ELSE "minimal"

\* Math.round of the non-negative fraction num / den
Round(num, den) == (2 * num + den) \div (2 * den)

\* variant: distance weighted 0.20 and velocity 0.15
WeightedSum_Reweighted(hazardWeight, diameterScore, distanceScore, velocityScore) ==
    hazardWeight * 40 + diameterScore * 25 + distanceScore * 20 + velocityScore * 15

\* hazardWeight*0.40 + diameterScore*0.25 + distanceScore*0.25 + velocityScore*0.10,
\* as a numerator over 100 * Q
WeightedSum(hazardWeight, diameterScore, distanceScore, velocityScore) ==
    hazardWeight * 40 + diameterScore * 25 + distanceScore * 25 + velocityScore * 10

\* variant: the floor is 0
ClampScore_FloorZero(totalScore) == Min(100, Max(0, totalScore))

\* Math.min(100, Math.max(1, totalScore))
ClampScore(totalScore) == Min(100, Max(1, totalScore))

calculateRiskScore(asteroid) ==
    LET isHazardous == Val(Coalesce(asteroid.is_potentially_hazardous_asteroid,
                              Coalesce(asteroid.isPotentiallyHazardous, Some(FALSE))))
        diameter == IF ~Truthy(asteroid.estimatedDiameterMax)
                       /\ Has(asteroid.estimated_diameter_max)
                    THEN asteroid.estimated_diameter_max
                    ELSE asteroid.estimatedDiameterMax
        lunarDistance == IF ~Truthy(asteroid.missDistanceLunar) /\ asteroid.has_close_approach
                         THEN Some(ParseFloatOr0(asteroid.miss_distance_lunar))
                         ELSE asteroid.missDistanceLunar
        velocity == IF ~Truthy(asteroid.relativeVelocityKmS) /\ asteroid.has_close_approach
                    THEN Some(ParseFloatOr0(asteroid.kilometers_per_second))
                    ELSE asteroid.relativeVelocityKmS
        hazardWeight == IF isHazardous THEN 100 * Q ELSE 0
        diameterScore == calculateDiameterScore(diameter)
        distanceScore == calculateDistanceScore(lunarDistance)
        velocityScore == calculateVelocityScore(velocity)
        totalScore == Round(WeightedSum(hazardWeight, diameterScore,
                                        distanceScore, velocityScore), 100 * Q)
        finalScore == ClampScore(totalScore)
    IN  [ score |-> finalScore,
          category |-> getRiskCategory(finalScore),
          factors |-> [ isHazardous |-> isHazardous,
                        diameterMeters |-> ParseFloatOr0(diameter),
                        lunarDistance |-> ParseFloatOr0(lunarDistance),
                        velocityKmS |-> ParseFloatOr0(velocity) ] ]

----------------------------------------------------------------------------
(* Objects handed to the scorer: the feed shape and the stored shape *)

OptBool == {Undefined, Some(TRUE), Some(FALSE)}
Diameters == {Undefined, Some(0), Some(1), Some(10), Some(100), Some(1000), Some(10000)}
LunarTenths == {Undefined, Some(0), Some(5), Some(10), Some(255), Some(363),
                Some(499), Some(500), Some(600)}
Velocities == {Undefined, Some(0), Some(15), Some(30), Some(45)}

\* a raw record of the NASA feed
FeedShape(id, hz, d, hasCad, ld, v, date) ==
    [ neo_reference_id |-> id,
      is_potentially_hazardous_asteroid |-> hz,
      estimated_diameter_max |-> d,
      has_close_approach |-> hasCad,
      miss_distance_lunar |-> ld,
      kilometers_per_second |-> v,
      close_approach_date |-> date,
      isPotentiallyHazardous |-> Undefined,
      estimatedDiameterMax |-> Undefined,
      missDistanceLunar |-> Undefined,
      relativeVelocityKmS |-> Undefined ]

\* a stored document read back from the database
StoredShape(id, hz, d, ld, v, date) ==
    [ neo_reference_id |-> id,
      is_potentially_hazardous_asteroid |-> Undefined,
      estimated_diameter_max |-> Undefined,
      has_close_approach |-> FALSE,
      miss_distance_lunar |-> Undefined,
      kilometers_per_second |-> Undefined,
      close_approach_date |-> date,
      isPotentiallyHazardous |-> hz,
      estimatedDiameterMax |-> d,
      missDistanceLunar |-> ld,
      relativeVelocityKmS |-> v ]

ScoreInputs ==
    { FeedShape("a1", hz, d, TRUE, ld, v, 0) :
        hz \in OptBool, d \in Diameters, ld \in LunarTenths, v \in Velocities }
    \cup
    { FeedShape("a1", hz, d, FALSE, Undefined, Undefined, 0) :
        hz \in OptBool, d \in Diameters }
    \cup
    { StoredShape("a1", hz, d, ld, v, 0) :
        hz \in OptBool, d \in Diameters, ld \in LunarTenths, v \in Velocities }

----------------------------------------------------------------------------
(* The feed: nasaService.js *)

\* a day (UTC calendar date) as the ticks it spans
DayOf(t) == t \div TicksPerDay

\* Revisions of the NASA catalogue.  a1: hazardous, 100 m, 0.5 LD, 0 km/s,
\* closest approach two days after time 0; its second revision moves it out to
\* 36.3 LD at 30 km/s.  a2: not hazardous, 100 m, 0.5 LD, 15 km/s, closest
\* approach on day 0.
A1near == FeedShape("a1", Some(TRUE), Some(100), TRUE, Some(5), Some(0), 2 * TicksPerDay)
A1far == FeedShape("a1", Some(TRUE), Some(100), TRUE, Some(363), Some(30), 2 * TicksPerDay)
A2 == FeedShape("a2", Some(FALSE), Some(100), TRUE, Some(5), Some(15), 1)
Catalogue == { <<A1near, A2>>, <<A1far, A2>> }

\* near_earth_objects of a feed response, flattened: the records of revision
\* cat whose close-approach date lies on the days firstDay..lastDay
FeedRecords(cat, firstDay, lastDay) ==
    SelectSeq(cat, LAMBDA neo : /\ DayOf(neo.close_approach_date) >= firstDay
                               /\ DayOf(neo.close_approach_date) <= lastDay)

\* fetchTodayNeos: one day
fetchTodayNeos(cat, now) == FeedRecords(cat, DayOf(now), DayOf(now))
\* fetchWeekNeos: today and the six days after it
fetchWeekNeos(cat, now) == FeedRecords(cat, DayOf(now), DayOf(now) + 6)

----------------------------------------------------------------------------
(* The stores: models/Asteroid, models/User, models/Alert *)

\* Asteroid.upsertFromNASA: the document written for a raw record
upsertFromNASA(nasaData, riskScore, riskCategory, now) ==
    [ neo_reference_id |-> nasaData.neo_reference_id,
      riskScore |-> riskScore,
      riskCategory |-> riskCategory,
      isPotentiallyHazardous |->
          IF Has(nasaData.is_potentially_hazardous_asteroid)
          THEN Val(nasaData.is_potentially_hazardous_asteroid) ELSE FALSE,
      estimatedDiameterMax |-> nasaData.estimated_diameter_max,
      closeApproachDate |-> nasaData.close_approach_date,
      missDistanceLunar |->
          IF nasaData.has_close_approach
          THEN ParseFloatOr0(nasaData.miss_distance_lunar) ELSE 0,
      relativeVelocityKmS |->
          IF nasaData.has_close_approach
          THEN ParseFloatOr0(nasaData.kilometers_per_second) ELSE 0,
      raw_data |-> nasaData,
      expiresAt |-> now + TicksPerDay,
      lastFetchedAt |-> now ]

\* variant: createdAt is set on every write, not only on insert
findOneAndUpdate_NoSetOnInsert(old, asteroidData, now) ==
    [ f \in DOMAIN asteroidData \cup {"createdAt", "updatedAt"} |->
        IF f \in {"createdAt", "updatedAt"} THEN now ELSE asteroidData[f] ]

\* variant: an update keeps the expiresAt of the stored document
findOneAndUpdate_KeepExpiry(old, asteroidData, now) ==
    [ f \in DOMAIN asteroidData \cup {"createdAt", "updatedAt"} |->
        IF f = "createdAt" THEN (IF Has(old) THEN Val(old).createdAt ELSE now)
        ELSE IF f = "updatedAt" THEN now
        ELSE IF f = "expiresAt" /\ Has(old) THEN Val(old).expiresAt
        ELSE asteroidData[f] ]

\* this.findOneAndUpdate({neo_reference_id}, asteroidData, {upsert: true, new: true})
\* under the schema option timestamps: true; old is the stored document, if any
findOneAndUpdate(old, asteroidData, now) ==
    [ f \in DOMAIN asteroidData \cup {"createdAt", "updatedAt"} |->
        IF f = "createdAt" THEN (IF Has(old) THEN Val(old).createdAt ELSE now)
        ELSE IF f = "updatedAt" THEN now
        ELSE asteroidData[f] ]

\* schema defaults of User.alertSettings
DefaultSettings ==
    [ enabled |-> TRUE, minDiameter |-> 100, maxDistance |-> Tenths(10),
      riskThreshold |-> 50 ]

\* alertSettings a PUT /api/auth/profile request may carry
SettingsChoices ==
    { DefaultSettings,
      [DefaultSettings EXCEPT !.enabled = FALSE],
      [DefaultSettings EXCEPT !.riskThreshold = 30],
      [DefaultSettings EXCEPT !.maxDistance = 0],
      [DefaultSettings EXCEPT !.minDiameter = 1000] }

\* variant: the warning band is missing
createCloseApproachAlert_NoWarning(id, user, asteroid, now) ==
    [ _id |-> id,
      userId |-> user._id,
      asteroidId |-> asteroid.neo_reference_id,
      type |-> "close_approach",
      severity |-> IF asteroid.riskScore >= 75 THEN "danger" ELSE "info",
      riskScore |-> asteroid.riskScore,
      eventDate |-> asteroid.closeApproachDate,
      isRead |-> FALSE,
      createdAt |-> now ]

\* variant: the alert is created already read
createCloseApproachAlert_Read(id, user, asteroid, now) ==
    [ _id |-> id,
      userId |-> user._id,
      asteroidId |-> asteroid.neo_reference_id,
      type |-> "close_approach",
      severity |-> IF asteroid.riskScore >= 75 THEN "danger"
                   ELSE IF asteroid.riskScore >= 50 THEN "warning"
                   ELSE "info",
      riskScore |-> asteroid.riskScore,
      eventDate |-> asteroid.closeApproachDate,
      isRead |-> TRUE,
      createdAt |-> now ]

\* Alert.createCloseApproachAlert: the document created
createCloseApproachAlert(id, user, asteroid, now) ==
    [ _id |-> id,
      userId |-> user._id,
      asteroidId |-> asteroid.neo_reference_id,
      type |-> "close_approach",
      severity |-> IF asteroid.riskScore >= 75 THEN "danger"
                   ELSE IF asteroid.riskScore >= 50 THEN "warning"
                   ELSE "info",
      riskScore |-> asteroid.riskScore,
      eventDate |-> asteroid.closeApproachDate,
      isRead |-> FALSE,
      createdAt |-> now ]

\* a User document as a query returns it
UserDoc(id) ==
    [ _id |-> id, alertSettings |-> users[id].alertSettings,
      watched_asteroid_ids |-> users[id].watched_asteroid_ids ]

\* the stored Asteroid documents, in collection order
StoredAsteroids ==
    LET ids == SelectSeq(AstOrder, LAMBDA x : Has(asteroids[x]))
    IN  [k \in 1..Len(ids) |-> Val(asteroids[ids[k]])]

----------------------------------------------------------------------------
(* alertDispatcher.js *)

\* variant: the riskThreshold check is left out
matchesUserThresholds_NoRisk(asteroid, alertSettings) ==
    IF /\ alertSettings.minDiameter # 0
       /\ Has(asteroid.estimatedDiameterMax)
       /\ Val(asteroid.estimatedDiameterMax) < alertSettings.minDiameter
    THEN FALSE
    ELSE IF /\ alertSettings.maxDistance # 0
            /\ asteroid.missDistanceLunar > alertSettings.maxDistance
    THEN FALSE
    ELSE TRUE

\* variant: a diameter equal to minDiameter is rejected too
matchesUserThresholds_StrictDiameter(asteroid, alertSettings) ==
    IF /\ alertSettings.minDiameter # 0
       /\ Has(asteroid.estimatedDiameterMax)
       /\ Val(asteroid.estimatedDiameterMax) <= alertSettings.minDiameter
    THEN FALSE
    ELSE IF /\ alertSettings.maxDistance # 0
            /\ asteroid.missDistanceLunar > alertSettings.maxDistance
    THEN FALSE
    ELSE IF /\ alertSettings.riskThreshold # 0
            /\ asteroid.riskScore < alertSettings.riskThreshold
    THEN FALSE
    ELSE TRUE

\* variant: the distance condition is missing
matchesUserThresholds_NoDistance(asteroid, alertSettings) ==
    IF /\ alertSettings.minDiameter # 0
       /\ Has(asteroid.estimatedDiameterMax)
       /\ Val(asteroid.estimatedDiameterMax) < alertSettings.minDiameter
    THEN FALSE
    ELSE IF /\ alertSettings.riskThreshold # 0
            /\ asteroid.riskScore < alertSettings.riskThreshold
    THEN FALSE
    ELSE TRUE

matchesUserThresholds(asteroid, alertSettings) ==
    IF /\ alertSettings.minDiameter # 0
       /\ Has(asteroid.estimatedDiameterMax)
       /\ Val(asteroid.estimatedDiameterMax) < alertSettings.minDiameter
    THEN FALSE
    ELSE IF /\ alertSettings.maxDistance # 0
            /\ asteroid.missDistanceLunar > alertSettings.maxDistance
    THEN FALSE
    ELSE IF /\ alertSettings.riskThreshold # 0
            /\ asteroid.riskScore < alertSettings.riskThreshold
    THEN FALSE
    ELSE TRUE

\* variant: approaches that have already passed are returned too
FindUpcoming_NoLowerBound(now, daysAhead) ==
    SelectSeq(StoredAsteroids,
              LAMBDA doc : doc.closeApproachDate <= now + daysAhead * TicksPerDay)

\* Asteroid.find({closeApproachDate: {$gte: now, $lte: futureDate}})
FindUpcoming(now, daysAhead) ==
    SelectSeq(StoredAsteroids,
              LAMBDA doc : /\ doc.closeApproachDate >= now
                           /\ doc.closeApproachDate <= now + daysAhead * TicksPerDay)

\* User.find({watched_asteroid_ids: id, 'alertSettings.enabled': true})
FindWatchingUsers(asteroid) ==
    LET ids == SelectSeq(UserOrder, LAMBDA id :
                   /\ asteroid.neo_reference_id \in users[id].watched_asteroid_ids
                   /\ users[id].alertSettings.enabled)
    IN  [k \in 1..Len(ids) |-> UserDoc(ids[k])]

\* variant: the query does not ask for alertSettings.enabled
FindThresholdUsers_AnyEnabled(asteroid) ==
    LET ids == SelectSeq(UserOrder, LAMBDA id :
                   /\ users[id].alertSettings.riskThreshold <= asteroid.riskScore
                   /\ asteroid.neo_reference_id \notin users[id].watched_asteroid_ids)
    IN  [k \in 1..Len(ids) |-> UserDoc(ids[k])]

\* User.find({'alertSettings.enabled': true,
\*            'alertSettings.riskThreshold': {$lte: riskScore},
\*            watched_asteroid_ids: {$ne: id}})
FindThresholdUsers(asteroid) ==
    LET ids == SelectSeq(UserOrder, LAMBDA id :
                   /\ users[id].alertSettings.enabled
                   /\ users[id].alertSettings.riskThreshold <= asteroid.riskScore
                   /\ asteroid.neo_reference_id \notin users[id].watched_asteroid_ids)
    IN  [k \in 1..Len(ids) |-> UserDoc(ids[k])]

\* variant: the threshold query is made for every asteroid
NeedsThresholdQuery_Always(asteroid) == asteroid.riskScore >= 0

\* line 116: the threshold query is made for this asteroid
NeedsThresholdQuery(asteroid) == asteroid.riskScore >= 50

\* variant: the guard looks back no time at all
DedupCutoff_NoHorizon(now) == now

\* new Date(Date.now() - 24 * 60 * 60 * 1000)
DedupCutoff(now) == now - TicksPerDay

\* variant: the guard looks at unread alerts only
ExistingAlert_UnreadOnly(userId, asteroidId, cutoff) ==
    \E al \in alerts : /\ al.userId = userId
                       /\ al.asteroidId = asteroidId
                       /\ al.createdAt >= cutoff
                       /\ ~al.isRead

\* Alert.findOne({userId, asteroidId, createdAt: {$gte: cutoff}}) finds a document
ExistingAlert(userId, asteroidId, cutoff) ==
    \E al \in alerts : /\ al.userId = userId
                       /\ al.asteroidId = asteroidId
                       /\ al.createdAt >= cutoff

----------------------------------------------------------------------------
(* Pipeline runs: scheduler.js and alertDispatcher.js, one step per await *)

ZeroStats == [total |-> 0, processed |-> 0, hazardous |-> 0, highRisk |-> 0, errors |-> 0]

\* Locals of a run.  trail, calledAt and prior are history: trail holds, for
\* every asteroid the sweep has handled and every user, how the sweep found the
\* user ("watcher", "threshold", or "none" when no query returned them), the
\* documents as the sweep read them, what the store held for the pair when the
\* candidate came up ("recent": an alert created in the trailing 24 hours,
\* "old": older alerts only, "none"), what became of the candidate ("notfound",
\* "rejected" by the personal filter, "skipped" by the dedup guard, "created",
\* "failed"), and the _id of the alert created for it, if any.  trigger is
\* history too: the POST /api/admin/fetch request that started the run, if one
\* did, with the response it was given.
IdleRun ==
    [ pc |-> "idle", id |-> 0, kind |-> "none", neoData |-> <<>>, i |-> 0,
      stats |-> ZeroStats, daysAhead |-> 0, now |-> 0, upcoming |-> <<>>, a |-> 0,
      watchingUsers |-> <<>>, usersToAlert |-> <<>>, nWatch |-> 0, u |-> 0,
      cutoff |-> 0, calledAt |-> 0, prior |-> "none",
      totalAlertsSent |-> 0, created |-> {}, trail |-> {},
      alertsSent |-> 0, error |-> FALSE, trigger |-> Undefined ]

\* the run's function has returned: only what it leaves behind is kept
Returned(st, sent, err) ==
    [IdleRun EXCEPT !.pc = "done", !.id = st.id, !.kind = st.kind, !.stats = st.stats,
                    !.daysAhead = st.daysAhead, !.now = st.now,
                    !.created = st.created, !.trail = st.trail,
                    !.alertsSent = sent, !.error = err, !.trigger = st.trigger]

Free(r) == run[r].pc \in {"idle", "done"}
CanStart == started < MaxRuns
CanFail == faults < MaxFaults

\* variant: the sweep always looks one day ahead
EnterSweep_OneDay(st, daysAhead) ==
    [st EXCEPT !.pc = "find", !.daysAhead = 1, !.now = clock]

\* checkAndDispatchAlerts(io, daysAhead) up to its first await
EnterSweep(st, daysAhead) ==
    [st EXCEPT !.pc = "find", !.daysAhead = daysAhead, !.now = clock]

\* the alerts of the pair in the store, seen from time t
PriorAlerts(userId, asteroidId, t) ==
    LET pair == {al \in alerts : al.userId = userId /\ al.asteroidId = asteroidId}
    IN  IF \E al \in pair : al.createdAt >= t - TicksPerDay THEN "recent"
        ELSE IF pair # {} THEN "old"
        ELSE "none"

\* the trail entry of candidate u of the current asteroid
Entry(st, prior, result, made) ==
    [ asteroid |-> st.upcoming[st.a],
      user |-> st.usersToAlert[st.u],
      how |-> IF st.u <= st.nWatch THEN "watcher" ELSE "threshold",
      prior |-> prior,
      result |-> result,
      made |-> made ]

\* the trail entries of the users that no query returned for the current asteroid
NotFound(st, found) ==
    { [ asteroid |-> st.upcoming[st.a],
        user |-> UserDoc(id),
        how |-> "none",
        prior |-> PriorAlerts(id, st.upcoming[st.a].neo_reference_id, clock),
        result |-> "notfound",
        made |-> {} ] :
      id \in { v \in Users : \A k \in 1..Len(found) : found[k]._id # v } }

RECURSIVE NextCandidate(_)
\* lines 126-131 and 107: skip the users the personal filter rejects; stop at the
\* first await, which is the findOne of createAlertForUser, the watcher query of
\* the next asteroid, or the return
NextCandidate(st) ==
    IF st.u <= Len(st.usersToAlert)
    THEN IF matchesUserThresholds(st.upcoming[st.a], st.usersToAlert[st.u].alertSettings)
         THEN [st EXCEPT !.pc = "findOne", !.cutoff = DedupCutoff(clock),
                         !.calledAt = clock]
         ELSE NextCandidate(
                [st EXCEPT !.u = st.u + 1,
                           !.trail = @ \cup
                              {Entry(st, PriorAlerts(st.usersToAlert[st.u]._id,
                                         st.upcoming[st.a].neo_reference_id, clock),
                                     "rejected", {})}])
    ELSE IF st.a < Len(st.upcoming)
    THEN [st EXCEPT !.pc = "watchers", !.a = st.a + 1, !.usersToAlert = <<>>,
                    !.nWatch = 0, !.u = 0]
    ELSE Returned(st, st.totalAlertsSent, FALSE)

\* line 124: usersToAlert = [...watchingUsers, ...thresholdUsers], then the loop
Candidates(st, watchingUsers, thresholdUsers) ==
    LET all == watchingUsers \o thresholdUsers
        st1 == [st EXCEPT !.watchingUsers = <<>>, !.usersToAlert = all,
                          !.nWatch = Len(watchingUsers), !.u = 1]
    IN  NextCandidate([st1 EXCEPT !.trail = @ \cup NotFound(st1, all)])

\* cron '1 0 * * *', the startup run of app.js, triggerManualFetch('today')
StartDaily(r) ==
    /\ Free(r) /\ CanStart
    /\ run' = [run EXCEPT ![r] = [IdleRun EXCEPT !.pc = "fetch", !.id = started + 1, !.kind = "daily"]]
    /\ started' = started + 1
    /\ UNCHANGED <<scoreVars, socketVars>>
    /\ UNCHANGED <<clock, asteroids, users, alerts, emitted, faults, userOps>>

\* cron '30 0 * * 1', triggerManualFetch('week')
StartWeekly(r) ==
    /\ Free(r) /\ CanStart
    /\ run' = [run EXCEPT ![r] = [IdleRun EXCEPT !.pc = "fetch", !.id = started + 1, !.kind = "weekly"]]
    /\ started' = started + 1
    /\ UNCHANGED <<scoreVars, socketVars>>
    /\ UNCHANGED <<clock, asteroids, users, alerts, emitted, faults, userOps>>

\* variant: every manual trigger starts the daily pipeline
triggerManualFetch_AlwaysDaily(type) == "daily"

\* triggerManualFetch(type): the pipeline it starts
triggerManualFetch(type) == IF type = "week" THEN "weekly" ELSE "daily"

\* the type field of the body of a POST /api/admin/fetch request
ManualTypes == {Undefined, Some("today"), Some("week"), Some("month")}

\* POST /api/admin/fetch: the run starts and goes up to its first await, then
\* the handler responds
ManualFetch(r, body) ==
    /\ Free(r) /\ CanStart
    /\ LET type == IF Has(body) THEN Val(body) ELSE "today"
           json == [ success |-> TRUE,
                     message |-> IF type = "week" THEN "Weekly fetch initiated. Check server logs for progress."
                                 ELSE "Daily fetch initiated. Check server logs for progress." ]
       IN  run' = [run EXCEPT ![r] =
               [IdleRun EXCEPT !.pc = "fetch", !.id = started + 1,
                               !.kind = triggerManualFetch(type),
                               !.trigger = Some([type |-> body, json |-> json])]]
    /\ started' = started + 1
    /\ UNCHANGED <<scoreVars, socketVars>>
    /\ UNCHANGED <<clock, asteroids, users, alerts, emitted, faults, userOps>>

\* cron '0 */6 * * *': checkAndDispatchAlerts(io, 1)
StartSweep(r) ==
    /\ Free(r) /\ CanStart
    /\ run' = [run EXCEPT ![r] = EnterSweep([IdleRun EXCEPT !.id = started + 1, !.kind = "sweep"], 1)]
    /\ started' = started + 1
    /\ UNCHANGED <<scoreVars, socketVars>>
    /\ UNCHANGED <<clock, asteroids, users, alerts, emitted, faults, userOps>>

\* await fetchTodayNeos() / fetchWeekNeos(): the feed answers
Fetch(r) ==
    /\ run[r].pc = "fetch"
    /\ \E cat \in Catalogue :
         LET neos == IF run[r].kind = "daily" THEN fetchTodayNeos(cat, clock)
                     ELSE fetchWeekNeos(cat, clock)
         IN  run' = [run EXCEPT ![r] =
                 IF Len(neos) = 0 THEN Returned(@, 0, FALSE)
                 ELSE [@ EXCEPT !.pc = "process", !.neoData = neos, !.i = 1,
                                !.stats = [ZeroStats EXCEPT !.total = Len(neos)]]]
    /\ UNCHANGED <<scoreVars, socketVars>>
    /\ UNCHANGED <<clock, asteroids, users, alerts, emitted, started,
                   faults, userOps>>

\* variant: the failure of the feed request is reported as the run's error
FetchFails_Surfaced(r) ==
    /\ run[r].pc = "fetch" /\ CanFail
    /\ run' = [run EXCEPT ![r] = Returned(@, 0, TRUE)]
    /\ faults' = faults + 1
    /\ UNCHANGED <<scoreVars, socketVars>>
    /\ UNCHANGED <<clock, asteroids, users, alerts, emitted, started, userOps>>

\* the feed request fails: fetchNeoFeed catches and the fetch yields []
FetchFails(r) ==
    /\ run[r].pc = "fetch" /\ CanFail
    /\ run' = [run EXCEPT ![r] = Returned(@, 0, FALSE)]
    /\ faults' = faults + 1
    /\ UNCHANGED <<scoreVars, socketVars>>
    /\ UNCHANGED <<clock, asteroids, users, alerts, emitted, started, userOps>>

\* variant: the batch is left after its first record
AfterRecord_LeaveEarly(st) == [st EXCEPT !.pc = "emit"]

\* after the loop body of record i: the next record, or the end of the batch
AfterRecord(st) ==
    IF st.i < Len(st.neoData) THEN [st EXCEPT !.i = st.i + 1]
    ELSE [st EXCEPT !.pc = "emit"]

\* Socket.IO delivery: io.emit reaches every connected client, io.to(room).emit
\* the connected clients that have joined the room
Hears(c, ev) ==
    /\ sockets[c].connected
    /\ IF ev.event \in {"CLOSE_APPROACH_ALERT", "watchlist_updated"}
       THEN ev.room \in sockets[c].rooms
       ELSE TRUE

\* io.emit(...) / io.to(room).emit(...) of the events evs
Emit(evs) ==
    /\ emitted' = emitted \cup evs
    /\ received' = [c \in Clients |-> received[c] \cup {ev \in evs : Hears(c, ev)}]

\* processAndStoreAsteroids, one record: score, upsert, tally, broadcast
ProcessRecord(r) ==
    /\ run[r].pc = "process"
    /\ \E neo \in {run[r].neoData[run[r].i]} :
       \E rsk \in {calculateRiskScore(neo)} :
       \E asteroidData \in {upsertFromNASA(neo, rsk.score, rsk.category, clock)} :
       \E asteroid \in {findOneAndUpdate(asteroids[neo.neo_reference_id], asteroidData, clock)} :
       LET stats == [run[r].stats EXCEPT
                        !.processed = @ + 1,
                        !.hazardous = IF asteroid.isPotentiallyHazardous THEN @ + 1 ELSE @,
                        !.highRisk = IF rsk.category = "high" THEN @ + 1 ELSE @]
       IN  /\ asteroids' = [asteroids EXCEPT ![asteroid.neo_reference_id] = Some(asteroid)]
           /\ run' = [run EXCEPT ![r] = AfterRecord([@ EXCEPT !.stats = stats])]
           /\ Emit(IF rsk.category = "high"
                   THEN {[ room |-> "broadcast", event |-> "NEW_HAZARDOUS_ASTEROID",
                           id |-> asteroid.neo_reference_id, by |-> run[r].id ]}
                   ELSE {})
    /\ UNCHANGED <<scoreVars, sockets, socketOps>>
    /\ UNCHANGED <<clock, users, alerts, started, faults, userOps>>

\* variant: a record that fails ends the batch
ProcessRecordFails_Aborts(r) ==
    /\ run[r].pc = "process" /\ CanFail
    /\ run' = [run EXCEPT ![r] = [@ EXCEPT !.pc = "emit", !.stats = [@ EXCEPT !.errors = @ + 1]]]
    /\ faults' = faults + 1
    /\ UNCHANGED <<scoreVars, socketVars>>
    /\ UNCHANGED <<clock, asteroids, users, alerts, emitted, started, userOps>>

\* the upsert of record i throws: caught at line 51, counted, the loop goes on
ProcessRecordFails(r) ==
    /\ run[r].pc = "process" /\ CanFail
    /\ run' = [run EXCEPT ![r] =
                 AfterRecord([@ EXCEPT !.stats = [@ EXCEPT !.errors = @ + 1]])]
    /\ faults' = faults + 1
    /\ UNCHANGED <<scoreVars, socketVars>>
    /\ UNCHANGED <<clock, asteroids, users, alerts, emitted, started, userOps>>

\* variant: the sweep is entered without the tally being emitted
BatchComplete_NoEvent(r) ==
    /\ run[r].pc = "emit"
    /\ run' = [run EXCEPT ![r] =
                 EnterSweep(@, IF run[r].kind = "daily" THEN 1 ELSE 7)]
    /\ UNCHANGED <<scoreVars, socketVars>>
    /\ UNCHANGED <<clock, asteroids, users, alerts, emitted, started, faults, userOps>>

\* runDailyFetch lines 82-92 / runWeeklyFetch lines 118-128: emit the tally,
\* then enter the sweep
BatchComplete(r) ==
    /\ run[r].pc = "emit"
    /\ Emit({[ room |-> "broadcast",
               event |-> IF run[r].kind = "daily" THEN "DAILY_UPDATE" ELSE "WEEKLY_UPDATE",
               stats |-> run[r].stats, by |-> run[r].id ]})
    /\ run' = [run EXCEPT ![r] =
                 EnterSweep(@, IF run[r].kind = "daily" THEN 1 ELSE 7)]
    /\ UNCHANGED <<scoreVars, sockets, socketOps>>
    /\ UNCHANGED <<clock, asteroids, users, alerts, started, faults, userOps>>

\* await Asteroid.find(...).lean()
QueryUpcoming(r) ==
    /\ run[r].pc = "find"
    /\ LET upcomingAsteroids == FindUpcoming(run[r].now, run[r].daysAhead)
       IN  run' = [run EXCEPT ![r] =
               IF Len(upcomingAsteroids) = 0 THEN Returned(@, 0, FALSE)
               ELSE [@ EXCEPT !.pc = "watchers", !.upcoming = upcomingAsteroids,
                              !.a = 1, !.totalAlertsSent = 0]]
    /\ UNCHANGED <<scoreVars, socketVars>>
    /\ UNCHANGED <<clock, asteroids, users, alerts, emitted, started,
                   faults, userOps>>

\* await User.find(watchers); below score 50 the threshold query is skipped
QueryWatchers(r) ==
    /\ run[r].pc = "watchers"
    /\ LET asteroid == run[r].upcoming[run[r].a]
           watchingUsers == FindWatchingUsers(asteroid)
       IN  run' = [run EXCEPT ![r] =
               IF NeedsThresholdQuery(asteroid)
               THEN [@ EXCEPT !.pc = "threshold", !.watchingUsers = watchingUsers]
               ELSE Candidates(@, watchingUsers, <<>>)]
    /\ UNCHANGED <<scoreVars, socketVars>>
    /\ UNCHANGED <<clock, asteroids, users, alerts, emitted, started,
                   faults, userOps>>

\* await User.find(threshold-matchers)
QueryThreshold(r) ==
    /\ run[r].pc = "threshold"
    /\ LET asteroid == run[r].upcoming[run[r].a]
           thresholdUsers == FindThresholdUsers(asteroid)
       IN  run' = [run EXCEPT ![r] = Candidates(@, run[r].watchingUsers, thresholdUsers)]
    /\ UNCHANGED <<scoreVars, socketVars>>
    /\ UNCHANGED <<clock, asteroids, users, alerts, emitted, started,
                   faults, userOps>>

\* a query of the sweep throws: caught at line 136, the sweep returns
\* {alertsSent: 0, error}
SweepQueryFails(r) ==
    /\ run[r].pc \in {"find", "watchers", "threshold"} /\ CanFail
    /\ run' = [run EXCEPT ![r] = Returned(@, 0, TRUE)]
    /\ faults' = faults + 1
    /\ UNCHANGED <<scoreVars, socketVars>>
    /\ UNCHANGED <<clock, asteroids, users, alerts, emitted, started, userOps>>

\* createAlertForUser: await Alert.findOne(...), the dedup guard
FindExisting(r) ==
    /\ run[r].pc = "findOne"
    /\ LET user == run[r].usersToAlert[run[r].u]
           asteroid == run[r].upcoming[run[r].a]
           prior == PriorAlerts(user._id, asteroid.neo_reference_id, run[r].calledAt)
       IN  run' = [run EXCEPT ![r] =
               IF ExistingAlert(user._id, asteroid.neo_reference_id, run[r].cutoff)
               THEN NextCandidate([@ EXCEPT !.u = @ + 1,
                                            !.trail = @ \cup
                                               {Entry(run[r], prior, "skipped", {})}])
               ELSE [@ EXCEPT !.pc = "create", !.prior = prior]]
    /\ UNCHANGED <<scoreVars, socketVars>>
    /\ UNCHANGED <<clock, asteroids, users, alerts, emitted, started,
                   faults, userOps>>

\* variant: the alert is published to every connected client
UserRoom_Broadcast(id) == "broadcast"

\* io.to(`user:${user._id}`): the private room of a user
UserRoom(id) == <<"user", id>>

\* createAlertForUser: await Alert.createCloseApproachAlert(...), then the push
CreateAlert(r) ==
    /\ run[r].pc = "create"
    /\ LET user == run[r].usersToAlert[run[r].u]
           asteroid == run[r].upcoming[run[r].a]
           alert == createCloseApproachAlert(<<run[r].id, run[r].totalAlertsSent + 1>>,
                                             user, asteroid, clock)
       IN  /\ alerts' = alerts \cup {alert}
           /\ Emit({[ room |-> UserRoom(user._id), event |-> "CLOSE_APPROACH_ALERT",
                      alertId |-> alert._id, asteroidId |-> asteroid.neo_reference_id,
                      timestamp |-> clock, by |-> run[r].id ]})
           /\ run' = [run EXCEPT ![r] =
                   NextCandidate([@ EXCEPT !.u = @ + 1,
                                           !.totalAlertsSent = @ + 1,
                                           !.created = @ \cup {alert},
                                           !.prior = "none",
                                           !.trail = @ \cup
                                              {Entry(run[r], run[r].prior, "created",
                                                     {alert._id})}])]
    /\ UNCHANGED <<scoreVars, sockets, socketOps>>
    /\ UNCHANGED <<clock, asteroids, users, started, faults, userOps>>

\* variant: the exception leaves createAlertForUser and ends the sweep
CreateAlertFails_Aborts(r) ==
    /\ run[r].pc \in {"findOne", "create"} /\ CanFail
    /\ run' = [run EXCEPT ![r] = Returned(@, 0, TRUE)]
    /\ faults' = faults + 1
    /\ UNCHANGED <<scoreVars, socketVars>>
    /\ UNCHANGED <<clock, asteroids, users, alerts, emitted, started, userOps>>

\* findOne or create throws: caught at line 73, createAlertForUser returns null
CreateAlertFails(r) ==
    /\ run[r].pc \in {"findOne", "create"} /\ CanFail
    /\ LET user == run[r].usersToAlert[run[r].u]
           asteroid == run[r].upcoming[run[r].a]
           prior == PriorAlerts(user._id, asteroid.neo_reference_id, run[r].calledAt)
       IN  run' = [run EXCEPT ![r] =
               NextCandidate([@ EXCEPT !.u = @ + 1, !.prior = "none",
                                       !.trail = @ \cup
                                          {Entry(run[r], prior, "failed", {})}])]
    /\ faults' = faults + 1
    /\ UNCHANGED <<scoreVars, socketVars>>
    /\ UNCHANGED <<clock, asteroids, users, alerts, emitted, started, userOps>>

----------------
(* The environment: time, the TTL monitor, user-facing requests *)

\* the TTL index on expiresAt: the documents MongoDB has deleted by time t.  The
\* TTL monitor runs every minute, so at the resolution of the clock a document
\* is gone when its expiresAt is reached.
ExpireDocuments(t) ==
    [x \in AstIds |->
        IF Has(asteroids[x]) /\ Val(asteroids[x]).expiresAt <= t
        THEN Undefined ELSE asteroids[x]]

\* time passes
Tick ==
    /\ clock < MaxTime
    /\ clock' = clock + 1
    /\ asteroids' = ExpireDocuments(clock + 1)
    /\ UNCHANGED <<scoreVars, socketVars>>
    /\ UNCHANGED <<users, alerts, emitted, run, started, faults, userOps>>

\* POST /api/auth/watchlist/:asteroidId
AddToWatchlist(id, x) ==
    /\ userOps < MaxUserOps
    /\ x \notin users[id].watched_asteroid_ids
    /\ users' = [users EXCEPT ![id].watched_asteroid_ids = @ \cup {x}]
    /\ Emit({[ room |-> UserRoom(id), event |-> "watchlist_updated",
               action |-> "added", asteroidId |-> x ]})
    /\ userOps' = userOps + 1
    /\ UNCHANGED <<scoreVars, sockets, socketOps>>
    /\ UNCHANGED <<clock, asteroids, alerts, run, started, faults>>

\* DELETE /api/auth/watchlist/:asteroidId
RemoveFromWatchlist(id, x) ==
    /\ userOps < MaxUserOps
    /\ x \in users[id].watched_asteroid_ids
    /\ users' = [users EXCEPT ![id].watched_asteroid_ids = @ \ {x}]
    /\ Emit({[ room |-> UserRoom(id), event |-> "watchlist_updated",
               action |-> "removed", asteroidId |-> x ]})
    /\ userOps' = userOps + 1
    /\ UNCHANGED <<scoreVars, sockets, socketOps>>
    /\ UNCHANGED <<clock, asteroids, alerts, run, started, faults>>

\* PUT /api/auth/profile with alertSettings
UpdateProfile(id, settings) ==
    /\ userOps < MaxUserOps
    /\ settings # users[id].alertSettings
    /\ users' = [users EXCEPT ![id].alertSettings = settings]
    /\ userOps' = userOps + 1
    /\ UNCHANGED <<scoreVars, socketVars>>
    /\ UNCHANGED <<clock, asteroids, alerts, emitted, run, started, faults>>

\* PUT /api/alerts/:id/read by the alert's owner: markAlertRead
MarkAlertRead(id, al) ==
    /\ userOps < MaxUserOps
    /\ al \in alerts /\ al.userId = id /\ ~al.isRead
    /\ alerts' = (alerts \ {al}) \cup {[al EXCEPT !.isRead = TRUE]}
    /\ userOps' = userOps + 1
    /\ UNCHANGED <<scoreVars, socketVars>>
    /\ UNCHANGED <<clock, asteroids, users, emitted, run, started, faults>>

\* PUT /api/alerts/read-all: markAllAlertsRead
MarkAllAlertsRead(id) ==
    /\ userOps < MaxUserOps
    /\ \E al \in alerts : al.userId = id /\ ~al.isRead
    /\ alerts' = { IF al.userId = id /\ ~al.isRead THEN [al EXCEPT !.isRead = TRUE] ELSE al :
                     al \in alerts }
    /\ userOps' = userOps + 1
    /\ UNCHANGED <<scoreVars, socketVars>>
    /\ UNCHANGED <<clock, asteroids, users, emitted, run, started, faults>>

\* DELETE /api/alerts/:id by the alert's owner
DeleteAlert(id, al) ==
    /\ userOps < MaxUserOps
    /\ al \in alerts /\ al.userId = id
    /\ alerts' = alerts \ {al}
    /\ userOps' = userOps + 1
    /\ UNCHANGED <<scoreVars, socketVars>>
    /\ UNCHANGED <<clock, asteroids, users, emitted, run, started, faults>>

----------------------------------------------------------------------------
(* Spec: the pipeline, with overlapping runs *)

\* no client is connected
NoSockets == [c \in Clients |-> [connected |-> FALSE, rooms |-> {}]]

\* registered users as they stand before the behaviour starts
InitialUsers ==
    [id \in Users |->
        [ alertSettings |-> DefaultSettings,
          watched_asteroid_ids |-> IF id = "u1" THEN {"a2"} ELSE {} ]]

InitPipe ==
    /\ clock = 0
    /\ asteroids = [x \in AstIds |-> Undefined]
    /\ users = InitialUsers
    /\ alerts = {}
    /\ emitted = {}
    /\ run = [r \in Runs |-> IdleRun]
    /\ started = 0
    /\ faults = 0
    /\ userOps = 0
    /\ sockets = NoSockets
    /\ received = [c \in Clients |-> {}]
    /\ socketOps = 0

Init ==
    /\ InitPipe
    /\ neoIn = A1near
    /\ risk = {}

\* run slots are anonymous: a run starts in the first free slot
FirstFree(r) == Free(r) /\ \A q \in Runs : Free(q) => r <= q
NoRunActive == \A q \in Runs : Free(q)

Next ==
    \/ \E r \in Runs : FirstFree(r) /\ StartDaily(r)
    \/ \E r \in Runs : FirstFree(r) /\ StartWeekly(r)
    \/ \E r \in Runs : FirstFree(r) /\ StartSweep(r)
    \/ \E r \in Runs : Fetch(r)
    \/ \E r \in Runs : ProcessRecord(r)
    \/ \E r \in Runs : BatchComplete(r)
    \/ \E r \in Runs : QueryUpcoming(r)
    \/ \E r \in Runs : QueryWatchers(r)
    \/ \E r \in Runs : QueryThreshold(r)
    \/ \E r \in Runs : FindExisting(r)
    \/ \E r \in Runs : CreateAlert(r)
    \/ Tick

Spec == Init /\ [][Next]_vars

----------------------------------------------------------------------------
(* SpecSeq: runs that do not overlap, with store and feed failures and with *)
(* user-facing requests arriving at any moment                              *)

NextSeq ==
    \/ \E r \in Runs : NoRunActive /\ FirstFree(r) /\ StartDaily(r)
    \/ \E r \in Runs : NoRunActive /\ FirstFree(r) /\ StartWeekly(r)
    \/ \E r \in Runs : NoRunActive /\ FirstFree(r) /\ StartSweep(r)
    \/ \E r \in Runs : Fetch(r)
    \/ \E r \in Runs : FetchFails(r)
    \/ \E r \in Runs : ProcessRecord(r)
    \/ \E r \in Runs : ProcessRecordFails(r)
    \/ \E r \in Runs : BatchComplete(r)
    \/ \E r \in Runs : QueryUpcoming(r)
    \/ \E r \in Runs : QueryWatchers(r)
    \/ \E r \in Runs : QueryThreshold(r)
    \/ \E r \in Runs : SweepQueryFails(r)
    \/ \E r \in Runs : FindExisting(r)
    \/ \E r \in Runs : CreateAlert(r)
    \/ \E r \in Runs : CreateAlertFails(r)
    \/ Tick
    \/ \E id \in Users, x \in AstIds : AddToWatchlist(id, x)
    \/ \E id \in Users, x \in AstIds : RemoveFromWatchlist(id, x)
    \/ \E id \in Users, settings \in SettingsChoices : UpdateProfile(id, settings)
    \/ \E id \in Users, al \in alerts : MarkAlertRead(id, al)
    \/ \E id \in Users : MarkAllAlertsRead(id)
    \/ \E id \in Users, al \in alerts : DeleteAlert(id, al)

SpecSeq == Init /\ [][NextSeq]_vars

----------------------------------------------------------------------------
(* SpecFair: runs that do not overlap, started by the scheduler or by a    *)
(* manual trigger, with store and feed failures, where every await of a    *)
(* run pending before its sweep settles: the promise resolves or rejects   *)
(* and the event loop resumes the run                                      *)

\* the next step of run r before its sweep, whichever way the pending await
\* settles
PipelineStep(r) ==
    \/ Fetch(r)
    \/ FetchFails(r)
    \/ ProcessRecord(r)
    \/ ProcessRecordFails(r)
    \/ BatchComplete(r)

\* the next step of run r inside its sweep
SweepStep(r) ==
    \/ QueryUpcoming(r)
    \/ QueryWatchers(r)
    \/ QueryThreshold(r)
    \/ SweepQueryFails(r)
    \/ FindExisting(r)
    \/ CreateAlert(r)
    \/ CreateAlertFails(r)

NextFair ==
    \/ \E r \in Runs : NoRunActive /\ FirstFree(r) /\ StartDaily(r)
    \/ \E r \in Runs : NoRunActive /\ FirstFree(r) /\ StartWeekly(r)
    \/ \E r \in Runs : NoRunActive /\ FirstFree(r) /\ StartSweep(r)
    \/ \E r \in Runs, body \in ManualTypes : NoRunActive /\ FirstFree(r) /\ ManualFetch(r, body)
    \/ \E r \in Runs : PipelineStep(r)
    \/ \E r \in Runs : SweepStep(r)
    \/ Tick

SpecFair == Init /\ [][NextFair]_vars /\ \A r \in Runs : WF_vars(PipelineStep(r))

----------------------------------------------------------------------------
(* SpecWatch: runs that do not overlap, with watch-list requests arriving  *)
(* at any moment, started with users who watch the high-risk object        *)

\* registered users: both watch a1, u1 watches a2 as well
WatchingUsers ==
    [id \in Users |->
        [ alertSettings |-> DefaultSettings,
          watched_asteroid_ids |-> IF id = "u1" THEN {"a1", "a2"} ELSE {"a1"} ]]

InitWatch ==
    /\ clock = 0
    /\ asteroids = [x \in AstIds |-> Undefined]
    /\ users = WatchingUsers
    /\ alerts = {}
    /\ emitted = {}
    /\ run = [r \in Runs |-> IdleRun]
    /\ started = 0
    /\ faults = 0
    /\ userOps = 0
    /\ sockets = NoSockets
    /\ received = [c \in Clients |-> {}]
    /\ socketOps = 0
    /\ neoIn = A1near
    /\ risk = {}

NextWatch ==
    \/ \E r \in Runs : NoRunActive /\ FirstFree(r) /\ StartDaily(r)
    \/ \E r \in Runs : NoRunActive /\ FirstFree(r) /\ StartWeekly(r)
    \/ \E r \in Runs : NoRunActive /\ FirstFree(r) /\ StartSweep(r)
    \/ \E r \in Runs : PipelineStep(r)
    \/ \E r \in Runs : SweepStep(r)
    \/ Tick
    \/ \E id \in Users, x \in AstIds : AddToWatchlist(id, x)
    \/ \E id \in Users, x \in AstIds : RemoveFromWatchlist(id, x)

SpecWatch == InitWatch /\ [][NextWatch]_vars

----------------------------------------------------------------------------
(* SpecSocket: Socket.IO clients of the default namespace, next to runs that
   do not overlap.  Both users watch a1 at the start. *)

\* the user a client acts for; the server keeps no record of it
ClientUser(c) == IF c = "c1" THEN "u1" ELSE "u2"

CanSend == socketOps < MaxSocketOps

\* io.on("connection"): a client connects; no handshake is checked
Connection(c) ==
    /\ CanSend
    /\ ~sockets[c].connected
    /\ sockets' = [sockets EXCEPT ![c] = [connected |-> TRUE, rooms |-> {}]]
    /\ socketOps' = socketOps + 1
    /\ UNCHANGED <<scoreVars, pipeVars, received>>

\* socket.on("watch_asteroid"): socket.join(`asteroid:${asteroidId}`)
WatchAsteroid(c, asteroidId) ==
    /\ CanSend
    /\ sockets[c].connected
    /\ sockets' = [sockets EXCEPT ![c].rooms = @ \cup {<<"asteroid", asteroidId>>}]
    /\ socketOps' = socketOps + 1
    /\ UNCHANGED <<scoreVars, pipeVars, received>>

\* socket.on("unwatch_asteroid"): socket.leave(`asteroid:${asteroidId}`)
UnwatchAsteroid(c, asteroidId) ==
    /\ CanSend
    /\ sockets[c].connected
    /\ sockets' = [sockets EXCEPT ![c].rooms = @ \ {<<"asteroid", asteroidId>>}]
    /\ socketOps' = socketOps + 1
    /\ UNCHANGED <<scoreVars, pipeVars, received>>

\* socket.on("join_user_room"): socket.join(`user:${userId}`), for whatever
\* userId the client sends
JoinUserRoom(c, userId) ==
    /\ CanSend
    /\ sockets[c].connected
    /\ sockets' = [sockets EXCEPT ![c].rooms = @ \cup {<<"user", userId>>}]
    /\ socketOps' = socketOps + 1
    /\ UNCHANGED <<scoreVars, pipeVars, received>>

\* socket.on("disconnect"): the socket has left all its rooms
Disconnect(c) ==
    /\ CanSend
    /\ sockets[c].connected
    /\ sockets' = [sockets EXCEPT ![c] = [connected |-> FALSE, rooms |-> {}]]
    /\ socketOps' = socketOps + 1
    /\ UNCHANGED <<scoreVars, pipeVars, received>>

NextSocket ==
    \/ \E r \in Runs : NoRunActive /\ FirstFree(r) /\ StartWeekly(r)
    \/ \E r \in Runs : NoRunActive /\ FirstFree(r) /\ StartSweep(r)
    \/ \E r \in Runs : PipelineStep(r)
    \/ \E r \in Runs : SweepStep(r)
    \/ \E id \in Users, x \in AstIds : AddToWatchlist(id, x)
    \/ \E id \in Users, x \in AstIds : RemoveFromWatchlist(id, x)
    \/ \E c \in Clients : Connection(c)
    \/ \E c \in Clients, x \in AstIds : WatchAsteroid(c, x)
    \/ \E c \in Clients, x \in AstIds : UnwatchAsteroid(c, x)
    \/ \E c \in Clients, id \in Users : JoinUserRoom(c, id)
    \/ \E c \in Clients : Disconnect(c)

SpecSocket == InitWatch /\ [][NextSocket]_vars

----------------------------------------------------------------------------
(* SpecScore: the scorer applied to every object of ScoreInputs *)

InitScore ==
    /\ InitPipe
    /\ neoIn \in ScoreInputs
    /\ risk = {}

\* GET /api/admin/test-risk/:id, and line 33 of processAndStoreAsteroids
TestRisk ==
    /\ risk = {}
    /\ risk' = {calculateRiskScore(neoIn)}
    /\ UNCHANGED <<neoIn, pipeVars, socketVars>>

\* lines 33-36 of processAndStoreAsteroids: the scored feed record is upserted
StoreScored ==
    /\ Has(risk)
    /\ neoIn.has_close_approach
    /\ ~Has(asteroids[neoIn.neo_reference_id])
    /\ asteroids' = [asteroids EXCEPT ![neoIn.neo_reference_id] =
                         Some(findOneAndUpdate(asteroids[neoIn.neo_reference_id],
                                upsertFromNASA(neoIn, Val(risk).score, Val(risk).category,
                                               clock), clock))]
    /\ UNCHANGED <<clock, users, alerts, emitted, run, started, faults, userOps>>
    /\ UNCHANGED <<scoreVars, socketVars>>

NextScore == TestRisk \/ StoreScored

SpecScore == InitScore /\ [][NextScore]_vars

----------------------------------------------------------------------------
(* SpecBatch: processAndStoreAsteroids applied to a batch of one feed record,
   for every record of ScoreInputs that carries close-approach data *)

\* processAndStoreAsteroids([neoIn]) is called: stats.total = neoData.length
ProcessInput ==
    /\ run[1].pc = "idle"
    /\ neoIn.has_close_approach
    /\ run' = [run EXCEPT ![1] =
                 [IdleRun EXCEPT !.pc = "process", !.id = 1, !.kind = "daily",
                                 !.neoData = <<neoIn>>, !.i = 1,
                                 !.stats = [ZeroStats EXCEPT !.total = 1]]]
    /\ UNCHANGED <<scoreVars, socketVars>>
    /\ UNCHANGED <<clock, asteroids, users, alerts, emitted, started, faults, userOps>>

NextBatch ==
    \/ TestRisk
    \/ ProcessInput
    \/ ProcessRecord(1)

SpecBatch == InitScore /\ [][NextBatch]_vars

----------------------------------------------------------------------------
(* Properties of the dedup guard *)

SamePair(a, b) ==
    /\ a.userId = b.userId
    /\ a.asteroidId = b.asteroidId
    /\ a.type = "close_approach" /\ b.type = "close_approach"

Apart(a, b) == IF a.createdAt >= b.createdAt THEN a.createdAt - b.createdAt
               ELSE b.createdAt - a.createdAt

\* C1: after any pipeline activity, overlapping runs included, no two
\* close_approach alerts of the same (user, object) pair have creation times less
\* than 24 hours apart.
C1_DedupContract ==
    \A a \in alerts : \A b \in alerts :
        (a # b /\ SamePair(a, b)) => Apart(a, b) >= TicksPerDay

\* the alert that run r created for candidate e, as a set
Made(r, e) ==
    { al \in run[r].created : /\ e.made = {al._id}
                              /\ al.userId = e.user._id
                              /\ al.asteroidId = e.asteroid.neo_reference_id
                              /\ al.riskScore = e.asteroid.riskScore }

\* the pushes run r sent to e.user for the alert of candidate e
Pushed(r, e) ==
    { ev \in emitted : /\ ev.event = "CLOSE_APPROACH_ALERT"
                       /\ ev.by = run[r].id
                       /\ ev.room = <<"user", e.user._id>>
                       /\ e.made = {ev.alertId} }

\* candidate e passed the personal filter, and no store operation failed on it
Qualified(e) ==
    /\ e.how \in {"watcher", "threshold"}
    /\ e.result \in {"skipped", "created"}

\* C2: runs do not overlap.  When a sweep reaches the dedup guard for a
\* qualifying (user, object) pair: if the store holds an alert of the pair
\* created within the trailing 24 hours, no alert is created and nothing pushed
\* for the candidate; otherwise exactly one alert is created and pushed for it.
\* A sweep creates no alert and sends no push but these.
C2_DedupSequential ==
    \A r \in Runs :
        /\ \A e \in run[r].trail :
              Qualified(e) =>
                  /\ e.prior = "recent" => /\ e.result = "skipped"
                                           /\ e.made = {}
                                           /\ Pushed(r, e) = {}
                  /\ e.prior # "recent" => /\ e.result = "created"
                                           /\ Cardinality(Made(r, e)) = 1
                                           /\ Cardinality(Pushed(r, e)) = 1
        /\ \A al \in run[r].created :
              \E e \in run[r].trail : e.result = "created" /\ al \in Made(r, e)
        /\ \A ev \in emitted :
              (ev.event = "CLOSE_APPROACH_ALERT" /\ ev.by = run[r].id) =>
                  \E e \in run[r].trail : e.result = "created" /\ ev \in Pushed(r, e)

\* a sweep alerts a pair again whose previous alert is older than 24 hours
C2_Witness ==
    \E r \in Runs : \E e \in run[r].trail :
        /\ e.result = "created" /\ e.prior = "old"
        /\ \E old \in alerts : /\ old.userId = e.user._id
                               /\ old.asteroidId = e.asteroid.neo_reference_id
                               /\ \A al \in Made(r, e) : al.createdAt - old.createdAt > TicksPerDay

----------------------------------------------------------------------------
(* Properties of recipient selection *)

\* the three conditions of the personal filter, as the specification words them
PersonalFilter(asteroid, alertSettings) ==
    /\ Has(asteroid.estimatedDiameterMax)
    /\ Val(asteroid.estimatedDiameterMax) >= alertSettings.minDiameter
    /\ asteroid.missDistanceLunar <= alertSettings.maxDistance
    /\ asteroid.riskScore >= alertSettings.riskThreshold

Watches(e) == e.asteroid.neo_reference_id \in e.user.watched_asteroid_ids

\* C3: every alert a sweep creates is for an object and a recipient profile with
\* diameter >= minDiameter, lunar distance <= maxDistance and score >=
\* riskThreshold, whether the recipient was a watcher or a threshold-matcher.
C3_PersonalFilter ==
    \A r \in Runs : \A e \in run[r].trail :
        e.result = "created" => PersonalFilter(e.asteroid, e.user.alertSettings)

\* C4: a user who watches X and has alerts enabled gets no alert for X from a
\* sweep that reads X's score below the user's riskThreshold.
C4_WatchingNotEnough ==
    \A r \in Runs : \A e \in run[r].trail :
        ( /\ Watches(e)
          /\ e.user.alertSettings.enabled
          /\ e.asteroid.riskScore < e.user.alertSettings.riskThreshold )
        => /\ e.result \in {"rejected", "notfound"}
           /\ e.made = {}

\* a watcher with alerts enabled was a candidate and the filter rejected them
C4_Witness ==
    \E r \in Runs : \E e \in run[r].trail :
        /\ e.how = "watcher" /\ Watches(e)
        /\ e.user.alertSettings.enabled
        /\ e.asteroid.riskScore < e.user.alertSettings.riskThreshold
        /\ e.result = "rejected"

\* the case of C5: the sweep handles an object scoring 82 and a user who does
\* not watch it, has alerts enabled and riskThreshold 50, the store holds no
\* alert of the pair, and no store operation fails
C5_Case(e) ==
    /\ e.asteroid.riskScore = 82
    /\ ~Watches(e)
    /\ e.user.alertSettings.enabled
    /\ e.user.alertSettings.riskThreshold = 50
    /\ e.prior = "none"
    /\ e.result # "failed"

C6_DisabledNeverAlerted ==
    \A r \in Runs :
        /\ \A e \in run[r].trail :
              ~e.user.alertSettings.enabled
                  => e.how = "none" /\ e.result = "notfound"
        /\ \A al \in run[r].created :
              \E e \in run[r].trail : /\ e.result = "created"
                                      /\ al \in Made(r, e)
                                      /\ e.user.alertSettings.enabled
        /\ \A ev \in emitted :
              (ev.event = "CLOSE_APPROACH_ALERT" /\ ev.by = run[r].id) =>
                  \E al \in run[r].created : /\ al._id = ev.alertId
                                             /\ ev.room = <<"user", al.userId>>

\* a sweep passed over a disabled user for an object the user's thresholds admit
C6_Witness ==
    \E r \in Runs : \E e \in run[r].trail :
        /\ ~e.user.alertSettings.enabled
        /\ e.result = "notfound"
        /\ e.asteroid.riskScore >= 50
        /\ matchesUserThresholds(e.asteroid, e.user.alertSettings)

\* C7: a user who does not watch X is not alerted about X by a sweep that reads
\* X's score below 50, whatever the user's riskThreshold.
C7_ThresholdGate ==
    \A r \in Runs : \A e \in run[r].trail :
        (~Watches(e) /\ e.asteroid.riskScore < 50)
            => /\ e.how = "none"
               /\ e.result = "notfound"
               /\ e.made = {}

\* a sweep passed over a non-watcher whose riskThreshold is at or below the score
C7_Witness ==
    \E r \in Runs : \E e \in run[r].trail :
        /\ ~Watches(e)
        /\ e.asteroid.riskScore < 50
        /\ e.user.alertSettings.enabled
        /\ e.user.alertSettings.riskThreshold <= e.asteroid.riskScore
        /\ matchesUserThresholds(e.asteroid, e.user.alertSettings)
        /\ e.result = "notfound"

----------------------------------------------------------------------------
(* Properties of the scorer *)

\* C8: the scorer returns an integer score in 1..100 for every input, and every
\* stored asteroid document has riskScore in 1..100.
C8_ScoreInRange ==
    /\ Has(risk) => Val(risk).score \in 1..100
    /\ \A x \in AstIds :
          Has(asteroids[x]) => Val(asteroids[x]).riskScore \in 1..100

\* the floor of the clamp is hit and the score stored
C8_Witness ==
    /\ Has(risk) /\ Val(risk).score = 1
    /\ Has(asteroids[neoIn.neo_reference_id])
    /\ Val(asteroids[neoIn.neo_reference_id]).riskScore = 1

\* every input of the object is unknown or zero
AllUnknownOrZero(neo) ==
    /\ Some(TRUE) \notin {neo.is_potentially_hazardous_asteroid, neo.isPotentiallyHazardous}
    /\ \A f \in {neo.estimated_diameter_max, neo.estimatedDiameterMax,
                 neo.miss_distance_lunar, neo.missDistanceLunar,
                 neo.kilometers_per_second, neo.relativeVelocityKmS} :
          f \in {Undefined, Some(0)}

\* C9 as stated: an object whose inputs are all unknown or zero scores 1,
\* category minimal.
C9_AsStated ==
    (Has(risk) /\ AllUnknownOrZero(neoIn))
        => Val(risk).score = 1 /\ Val(risk).category = "minimal"

\* C9 amended: an object whose inputs are all unknown or zero scores 25 (the
\* unknown distance counts as the worst case), category minimal.
C9_Amended ==
    (Has(risk) /\ AllUnknownOrZero(neoIn))
        => Val(risk).score = 25 /\ Val(risk).category = "minimal"

\* a feed record with every input zero has been scored 25
C9_Witness ==
    /\ Has(risk) /\ AllUnknownOrZero(neoIn)
    /\ neoIn.has_close_approach
    /\ Val(risk).score = 25

\* the inputs of an object, whichever shape carries them
InHazardous(neo) ==
    Some(TRUE) \in {neo.is_potentially_hazardous_asteroid, neo.isPotentiallyHazardous}
InDiameter(neo) == neo.estimated_diameter_max \cup neo.estimatedDiameterMax
InLunar(neo) == neo.miss_distance_lunar \cup neo.missDistanceLunar
InVelocity(neo) == neo.kilometers_per_second \cup neo.relativeVelocityKmS

\* 100 for d <= 1 LD or unknown, 0 for d >= 50 LD, 100*(50-d)/49 between, times Q
\* (d in tenths of LD: 100 * (500 - d) / 490 * Q = 30 * (500 - d))
StatedDistanceScore(d) ==
    IF d = Undefined \/ Val(d) <= 10 THEN 100 * Q
    ELSE IF Val(d) >= 500 THEN 0
    ELSE 30 * (500 - Val(d))

\* min(100, 100*v/30), times Q
StatedVelocityScore(v) ==
    IF v = Undefined THEN 0 ELSE Min(100 * Q, (490 * Val(v)))

\* round(0.40*hazardWeight + 0.25*diameterScore + 0.25*distanceScore +
\* 0.10*velocityScore) clamped to [1,100]
StatedScore(neo) ==
    LET sum == 40 * (IF InHazardous(neo) THEN 100 * Q ELSE 0)
               + 25 * calculateDiameterScore(InDiameter(neo))
               + 25 * StatedDistanceScore(InLunar(neo))
               + 10 * StatedVelocityScore(InVelocity(neo))
        rounded == CHOOSE n \in 0..100 :
                      /\ 2 * n * 100 * Q <= 2 * sum + 100 * Q
                      /\ 2 * sum + 100 * Q < 2 * (n + 1) * 100 * Q
    IN  IF rounded < 1 THEN 1 ELSE rounded

Example100 == {FeedShape("a1", Some(TRUE), Some(1000), TRUE, Some(5), Some(30), 0),
               StoredShape("a1", Some(TRUE), Some(1000), Some(5), Some(30), 0)}

\* C10: the score is the rounded weighted sum of the four sub-scores as the
\* specification defines them, clamped to [1,100]; hazardous, 1000 m, 0.5 LD,
\* 30 km/s scores 100, category high.
C10_ScoreFormula ==
    Has(risk) =>
        /\ Val(risk).score = StatedScore(neoIn)
        /\ neoIn \in Example100 =>
              Val(risk).score = 100 /\ Val(risk).category = "high"

\* the example object has been scored
C10_Witness ==
    /\ Has(risk)
    /\ neoIn \in Example100
    /\ Val(risk).score = 100 /\ Val(risk).category = "high"

----------------------------------------------------------------------------
(* Properties of the stored asteroid documents *)

\* the category the specification assigns to a score
StatedCategory(score) ==
    CHOOSE c \in {"high", "moderate", "low", "minimal"} :
        /\ c = "high" <=> score >= 76
        /\ c = "moderate" <=> (score >= 51 /\ score < 76)
        /\ c = "low" <=> (score >= 26 /\ score < 51)

\* C11: in every reachable state of the store, each asteroid document's
\* riskCategory is the category of its own riskScore (high from 76, moderate
\* from 51, low from 26, otherwise minimal), whatever upserts came before.
C11_CategoryOfScore ==
    \A x \in AstIds :
        Has(asteroids[x]) =>
            Val(asteroids[x]).riskCategory = StatedCategory(Val(asteroids[x]).riskScore)

\* a1 was stored as high, and a later upsert of its revision made it moderate
C11_Witness ==
    /\ Has(asteroids["a1"])
    /\ Val(asteroids["a1"]).riskCategory = "moderate"
    /\ Val(asteroids["a1"]).updatedAt > Val(asteroids["a1"]).createdAt
    /\ \E ev \in emitted : ev.event = "NEW_HAZARDOUS_ASTEROID" /\ ev.id = "a1"
    /\ Has(asteroids["a2"])
    /\ Val(asteroids["a2"]).riskCategory = "low"

\* documents d1 and d2 agree on every field outside except
SameExcept(d1, d2, except) ==
    /\ DOMAIN d1 = DOMAIN d2
    /\ \A f \in DOMAIN d1 \ except : d1[f] = d2[f]

\* a step that leaves document x in the store with the raw record it had
Reingested(x) ==
    /\ Has(asteroids[x]) /\ Has(asteroids'[x])
    /\ Val(asteroids[x]).raw_data = Val(asteroids'[x]).raw_data

----------------------------------------------------------------------------
(* Properties of the order of steps in a run *)

\* positions of a run inside checkAndDispatchAlerts
SweepPcs == {"find", "watchers", "threshold", "findOne", "create"}

\* every record of the run's batch has been through the loop body
BatchDone(st) ==
    /\ st.i = Len(st.neoData)
    /\ st.stats.processed + st.stats.errors = st.stats.total
    /\ st.stats.total = Len(st.neoData)

\* C13: within one pipeline run, no record is scored or upserted before the
\* run's fetch has completed (processing starts only from the fetch, with the
\* fetched batch, and the store is written only by a run that is processing),
\* and the run's sweep starts only when every record of the batch is done.
C13_StepOrder ==
    [][/\ \A r \in Runs :
            /\ (run'[r].pc = "process" /\ run[r].pc # "process")
                   => /\ run[r].pc = "fetch"
                      /\ run'[r].i = 1
                      /\ run'[r].stats = [ZeroStats EXCEPT !.total = Len(run'[r].neoData)]
            /\ run'[r].pc = "fetch" => run'[r].neoData = <<>> /\ run'[r].stats = ZeroStats
            /\ (run'[r].pc = "emit" /\ run[r].pc # "emit")
                   => run[r].pc = "process" /\ BatchDone(run'[r])
            /\ (run'[r].pc \in SweepPcs /\ run[r].pc \notin SweepPcs /\ run'[r].kind # "sweep")
                   => run[r].pc = "emit" /\ BatchDone(run[r])
       /\ (\E x \in AstIds : asteroids'[x] # asteroids[x] /\ clock' = clock)
              => \E r \in Runs : /\ run[r].pc = "process"
                                 /\ run'[r].stats.processed = run[r].stats.processed + 1
      ]_vars

\* a weekly run is in its sweep with both records of its batch stored
C13_Witness ==
    \E r \in Runs :
        /\ run[r].kind = "weekly" /\ run[r].pc \in SweepPcs
        /\ run[r].stats.total = 2 /\ run[r].stats.processed = 2
        /\ \A x \in AstIds : Has(asteroids[x])

----------------------------------------------------------------------------
(* Properties of the sweep of a pipeline run *)

Lookahead(kind) == IF kind = "daily" THEN 1 ELSE 7
RunIds == 1 .. MaxRuns
Pipeline(st) == st.kind \in {"daily", "weekly"}

\* the pipeline run numbered id is in its sweep, with the lookahead of its kind
Sweeping(id) ==
    \E r \in Runs : /\ run[r].id = id /\ Pipeline(run[r])
                    /\ run[r].pc \in SweepPcs
                    /\ run[r].daysAhead = Lookahead(run[r].kind)

\* C14 as stated: each started daily or weekly run eventually performs its
\* sweep, with a lookahead of 1 day (daily) or 7 days (weekly).  A run that has
\* returned performs nothing further, so a run that has returned has performed
\* its sweep.
C14_AsStated ==
    \A r \in Runs :
        (Pipeline(run[r]) /\ run[r].pc = "done")
            => run[r].daysAhead = Lookahead(run[r].kind)

\* C14 amended: each daily or weekly run whose fetch yields at least one
\* record eventually performs its sweep, with a lookahead of 1 day (daily) or
\* 7 days (weekly); a run returns without a sweep exactly when its fetch
\* yielded no record.
C14_Amended ==
    /\ \A id \in RunIds :
          (\E r \in Runs : run[r].id = id /\ Pipeline(run[r]) /\ run[r].pc = "process")
              ~> Sweeping(id)
    /\ [](\A r \in Runs :
            /\ (Pipeline(run[r]) /\ run[r].pc \in SweepPcs)
                  => run[r].daysAhead = Lookahead(run[r].kind)
            /\ (Pipeline(run[r]) /\ run[r].pc = "done")
                  => (run[r].daysAhead = 0 <=> run[r].stats.total = 0))

\* the second run started, a weekly one, has gone through its batch of two
\* records and is in its sweep with a 7-day lookahead
C14_Witness ==
    \E r \in Runs :
        /\ run[r].kind = "weekly" /\ run[r].id = 2 /\ run[r].pc \in SweepPcs
        /\ run[r].stats.total = 2 /\ run[r].daysAhead = 7

----------------------------------------------------------------------------
(* Properties of failures *)

\* run r returns from its fetch: the fetch yielded no record
FetchReturn(r) == run[r].pc = "fetch" /\ run'[r].pc = "done"

\* what a run leaves behind when its feed succeeded with no records: nothing
\* but what it was started with
NothingDone(st) ==
    [IdleRun EXCEPT !.pc = "done", !.id = st.id, !.kind = st.kind,
                    !.trigger = st.trigger]

\* a new run can be started by the scheduler
CanFire ==
    /\ ENABLED (\E r \in Runs : NoRunActive /\ FirstFree(r) /\ StartDaily(r))
    /\ ENABLED (\E r \in Runs : NoRunActive /\ FirstFree(r) /\ StartWeekly(r))
    /\ ENABLED (\E r \in Runs : NoRunActive /\ FirstFree(r) /\ StartSweep(r))

\* C15: a feed failure is never surfaced as a pipeline failure.  A run whose
\* fetch yields no record, because the feed failed or because it succeeded
\* with no records, returns having changed nothing in the snapshot store, the
\* alert records and the emitted events, and leaves behind zero counters and
\* no error, the same in both cases; after it the scheduler can still start
\* every kind of run.
C15_FeedFailure ==
    /\ [][\A r \in Runs :
            FetchReturn(r) =>
                /\ run'[r] = NothingDone(run[r])
                /\ UNCHANGED <<asteroids, users, alerts, emitted>>]_vars
    /\ [](\A r \in Runs :
            (Pipeline(run[r]) /\ run[r].pc = "done" /\ run[r].stats.total = 0 /\ CanStart)
                => CanFire)

\* the feed of a weekly run has failed (the feed lists a record for every
\* week), and the run has returned
C15_Witness ==
    \E r \in Runs :
        /\ run[r].kind = "weekly" /\ run[r].pc = "done" /\ run[r].stats.total = 0
        /\ faults = 1 /\ ~run[r].error /\ CanStart

\* run r has left its batch loop
PastBatch(st) == st.pc \in {"emit", "done"} \cup SweepPcs

\* C16: a record whose scoring or upsert fails is counted once in errors and
\* does not stop the batch: the loop goes on to the next record, every record
\* that does not fail is scored and upserted, and when the batch ends
\* processed + errors = total, with hazardous <= processed and
\* highRisk <= processed.
C16_BatchTally ==
    /\ [](\A r \in Runs :
            Pipeline(run[r]) =>
                /\ run[r].stats.hazardous <= run[r].stats.processed
                /\ run[r].stats.highRisk <= run[r].stats.processed
                /\ run[r].pc = "process" =>
                      /\ run[r].stats.total = Len(run[r].neoData)
                      /\ run[r].stats.processed + run[r].stats.errors = run[r].i - 1
                /\ PastBatch(run[r]) =>
                      run[r].stats.processed + run[r].stats.errors = run[r].stats.total)
    /\ [][\A r \in Runs :
            (run[r].pc = "process" /\ run'[r] # run[r]) =>
                LET neo == run[r].neoData[run[r].i]
                    old == run[r].stats
                    new == run'[r].stats
                IN  /\ IF run[r].i < Len(run[r].neoData)
                       THEN run'[r].pc = "process" /\ run'[r].i = run[r].i + 1
                       ELSE run'[r].pc = "emit"
                    /\ IF faults' # faults
                       THEN /\ new = [old EXCEPT !.errors = @ + 1]
                            /\ asteroids' = asteroids
                       ELSE /\ new.errors = old.errors
                            /\ new.processed = old.processed + 1
                            /\ Has(asteroids'[neo.neo_reference_id])
                            /\ Val(asteroids'[neo.neo_reference_id]).raw_data = neo
                            /\ Val(asteroids'[neo.neo_reference_id]).lastFetchedAt = clock
                            /\ Val(asteroids'[neo.neo_reference_id]).riskScore
                                   = calculateRiskScore(neo).score]_vars

\* a weekly batch of two records has ended with its first record failed and
\* its second record stored
C16_Witness ==
    \E r \in Runs :
        /\ run[r].kind = "weekly" /\ run[r].pc = "emit"
        /\ run[r].stats = [total |-> 2, processed |-> 1, hazardous |-> 0,
                           highRisk |-> 0, errors |-> 1]
        /\ ~Has(asteroids["a1"]) /\ Has(asteroids["a2"])

\* the candidates after the current one, of the current asteroid, that pass
\* the personal filter
LaterCandidates(st) ==
    { k \in (st.u + 1) .. Len(st.usersToAlert) :
        matchesUserThresholds(st.upcoming[st.a], st.usersToAlert[k].alertSettings) }

\* C17: if creating the alert for one recipient fails in a sweep, no
\* AlertRecord is created and nothing pushed for that recipient, the sweep
\* continues with the next qualifying recipient of the same object, or with
\* the next object, or returns without error when none is left, and every
\* other candidate that reaches the dedup guard without a recent alert of its
\* pair has its alert created and pushed.
C17_AlertFailure ==
    /\ [][\A r \in Runs :
            (run[r].pc \in {"findOne", "create"} /\ faults' # faults /\ run'[r] # run[r]) =>
                /\ alerts' = alerts /\ emitted' = emitted
                /\ run'[r].created = run[r].created
                /\ \E e \in run'[r].trail \ run[r].trail :
                      /\ e.result = "failed" /\ e.made = {}
                      /\ e.user = run[r].usersToAlert[run[r].u]
                      /\ e.asteroid = run[r].upcoming[run[r].a]
                /\ IF LaterCandidates(run[r]) # {}
                   THEN /\ run'[r].pc = "findOne" /\ run'[r].a = run[r].a
                        /\ run'[r].u \in LaterCandidates(run[r])
                        /\ \A k \in LaterCandidates(run[r]) : run'[r].u <= k
                        /\ run'[r].totalAlertsSent = run[r].totalAlertsSent
                   ELSE IF run[r].a < Len(run[r].upcoming)
                   THEN /\ run'[r].pc = "watchers" /\ run'[r].a = run[r].a + 1
                        /\ run'[r].totalAlertsSent = run[r].totalAlertsSent
                   ELSE /\ run'[r].pc = "done" /\ ~run'[r].error
                        /\ run'[r].alertsSent = run[r].totalAlertsSent]_vars
    /\ [](\A r \in Runs : \A e \in run[r].trail :
            /\ e.result = "failed" => Made(r, e) = {} /\ Pushed(r, e) = {}
            /\ (e.how # "none" /\ e.result \notin {"rejected", "failed"} /\ e.prior # "recent")
                  => /\ e.result = "created"
                     /\ Cardinality(Made(r, e)) = 1
                     /\ Cardinality(Pushed(r, e)) = 1
                     /\ Made(r, e) \subseteq alerts \/ userOps > 0)

\* in one sweep the creation failed for u1 on a1, after which u2 was alerted
\* about a1 and u1 about the later object a2
C17_Witness ==
    \E r \in Runs : \E e1, e2, e3 \in run[r].trail :
        /\ run[r].pc = "done"
        /\ e1.result = "failed" /\ e1.user._id = "u1" /\ e1.asteroid.neo_reference_id = "a1"
        /\ e2.result = "created" /\ e2.user._id = "u2" /\ e2.asteroid.neo_reference_id = "a1"
        /\ e3.result = "created" /\ e3.user._id = "u1" /\ e3.asteroid.neo_reference_id = "a2"
        /\ \A al \in alerts : ~(al.userId = "u1" /\ al.asteroidId = "a1")
        /\ Cardinality(alerts) = 2

----------------------------------------------------------------------------
(* Properties of the manual trigger *)

\* the acknowledgment of a manual trigger of the given mode
Acknowledgment(mode) ==
    [ success |-> TRUE,
      message |-> IF mode = Some("week")
                  THEN "Weekly fetch initiated. Check server logs for progress."
                  ELSE "Daily fetch initiated. Check server logs for progress." ]

\* C18: a manual trigger with mode week starts the weekly pipeline and with
\* mode today the daily pipeline; its acknowledgment is given in the step that
\* starts the run, while the run is still at its fetch, depends on the mode
\* alone, and stays as given whatever the run does afterwards.
C18_ManualTrigger ==
    /\ [](\A r \in Runs :
            Has(run[r].trigger) =>
                /\ Val(run[r].trigger).type = Some("week") => run[r].kind = "weekly"
                /\ Val(run[r].trigger).type = Some("today") => run[r].kind = "daily"
                /\ Val(run[r].trigger).json = Acknowledgment(Val(run[r].trigger).type))
    /\ [][\A r \in Runs :
            /\ (Has(run'[r].trigger) /\ run'[r].id # run[r].id) => run'[r].pc = "fetch"
            /\ run'[r].id = run[r].id => run'[r].trigger = run[r].trigger]_vars

\* a manual trigger of mode week was acknowledged, and the weekly run it
\* started has since returned with a record failed
C18_Witness ==
    \E r \in Runs :
        /\ Has(run[r].trigger) /\ Val(run[r].trigger).type = Some("week")
        /\ run[r].kind = "weekly" /\ run[r].pc = "done" /\ run[r].stats.errors = 1

----------------------------------------------------------------------------
(* Properties of the published events *)

\* the high-risk broadcasts of the run numbered id
HighRiskBroadcasts(id) ==
    { ev \in emitted : ev.event = "NEW_HAZARDOUS_ASTEROID" /\ ev.by = id }

\* the batch-complete events of the run numbered id
BatchCompleteEvents(id) ==
    { ev \in emitted : ev.event \in {"DAILY_UPDATE", "WEEKLY_UPDATE"} /\ ev.by = id }

\* C19: in a run that processes a batch, the broadcast for an object is
\* emitted in the step that has upserted the object with category high, while
\* the run has emitted no batch-complete event; the batch-complete event is
\* emitted exactly once, when every record is done and on the way into the
\* sweep; and it carries a highRisk count equal to the number of high-risk
\* broadcasts of the run.
C19_EventOrder ==
    /\ [](\A r \in Runs :
            Pipeline(run[r]) =>
                /\ run[r].pc \in {"fetch", "process", "emit"} =>
                      /\ BatchCompleteEvents(run[r].id) = {}
                      /\ Cardinality(HighRiskBroadcasts(run[r].id)) = run[r].stats.highRisk
                /\ (run[r].pc = "done" /\ run[r].stats.total = 0) =>
                      /\ BatchCompleteEvents(run[r].id) = {}
                      /\ HighRiskBroadcasts(run[r].id) = {}
                /\ (run[r].pc \in SweepPcs \cup {"done"} /\ run[r].stats.total > 0) =>
                      \E ev \in BatchCompleteEvents(run[r].id) :
                          /\ BatchCompleteEvents(run[r].id) = {ev}
                          /\ ev.room = "broadcast"
                          /\ ev.event = IF run[r].kind = "daily" THEN "DAILY_UPDATE"
                                        ELSE "WEEKLY_UPDATE"
                          /\ ev.stats = run[r].stats
                          /\ ev.stats.highRisk = Cardinality(HighRiskBroadcasts(run[r].id)))
    /\ [][/\ \A ev \in emitted' \ emitted :
               /\ ev.event = "NEW_HAZARDOUS_ASTEROID" =>
                     \E r \in Runs :
                         /\ run[r].id = ev.by /\ run[r].pc = "process"
                         /\ ev.room = "broadcast"
                         /\ ev.id = run[r].neoData[run[r].i].neo_reference_id
                         /\ Has(asteroids'[ev.id])
                         /\ Val(asteroids'[ev.id]).raw_data = run[r].neoData[run[r].i]
                         /\ Val(asteroids'[ev.id]).lastFetchedAt = clock
                         /\ Val(asteroids'[ev.id]).riskCategory = "high"
               /\ ev.event \in {"DAILY_UPDATE", "WEEKLY_UPDATE"} =>
                     \E r \in Runs :
                         /\ run[r].id = ev.by /\ run[r].pc = "emit" /\ BatchDone(run[r])
                         /\ run'[r].pc = "find"
          /\ \A r \in Runs :
               (/\ run[r].pc = "process"
                /\ run'[r].stats.processed = run[r].stats.processed + 1
                /\ calculateRiskScore(run[r].neoData[run[r].i]).category = "high")
                   => \E ev \in emitted' \ emitted :
                         /\ ev.event = "NEW_HAZARDOUS_ASTEROID" /\ ev.by = run[r].id
                         /\ ev.id = run[r].neoData[run[r].i].neo_reference_id]_vars

\* a weekly run has broadcast its one high-category object, emitted its
\* batch-complete event with highRisk 1, and is in its sweep
C19_Witness ==
    \E r \in Runs :
        /\ run[r].kind = "weekly" /\ run[r].pc \in SweepPcs
        /\ run[r].stats.highRisk = 1 /\ run[r].stats.processed = 2
        /\ Cardinality(HighRiskBroadcasts(run[r].id)) = 1
        /\ Cardinality(BatchCompleteEvents(run[r].id)) = 1

\* C20: a close-approach-alert event is published only in the step that has
\* persisted an AlertRecord, carries that record's _id and goes to the channel
\* user:<id> of that record's recipient, the candidate the sweep is at; none is
\* ever on the broadcast channel; and the step of the dedup guard, whether it
\* skips or not, and a step in which the lookup or the creation fails publish
\* nothing.
C20_AlertChannel ==
    /\ [](\A ev \in emitted :
            ev.event = "CLOSE_APPROACH_ALERT" =>
                /\ ev.room # "broadcast"
                /\ \E id \in Users : ev.room = <<"user", id>>)
    /\ [][/\ \A ev \in emitted' \ emitted :
               ev.event = "CLOSE_APPROACH_ALERT" =>
                   \E al \in alerts' \ alerts : \E r \in Runs :
                       /\ al._id = ev.alertId
                       /\ ev.room = <<"user", al.userId>>
                       /\ run[r].id = ev.by /\ run[r].pc = "create"
                       /\ al.userId = run[r].usersToAlert[run[r].u]._id
                       /\ al.asteroidId = run[r].upcoming[run[r].a].neo_reference_id
                       /\ \A other \in emitted' \ emitted : other = ev
          /\ \A r \in Runs :
               (/\ run'[r] # run[r]
                /\ \/ run[r].pc = "findOne"
                   \/ run[r].pc = "create" /\ faults' # faults)
                   => emitted' = emitted /\ alerts' = alerts]_vars

\* a sweep has skipped u1 at the dedup guard and alerted u2, whose event is on
\* u2's channel alone
C20_Witness ==
    \E r \in Runs : \E e1, e2 \in run[r].trail :
        /\ e1.result = "skipped" /\ e1.user._id = "u1"
        /\ e2.result = "created" /\ e2.user._id = "u2"
        /\ e1.asteroid.neo_reference_id = e2.asteroid.neo_reference_id
        /\ \E ev \in emitted : /\ ev.event = "CLOSE_APPROACH_ALERT" /\ ev.by = run[r].id
                               /\ e2.made = {ev.alertId} /\ ev.room = <<"user", "u2">>
        /\ \A ev \in emitted : (ev.event = "CLOSE_APPROACH_ALERT" /\ ev.by = run[r].id)
                                   => ev.room # <<"user", "u1">>

----------------------------------------------------------------------------
(* Properties of the alert records *)

\* the severity of a score, as the specification words it
StatedSeverity(score) ==
    IF score >= 75 THEN "danger"
    ELSE IF score >= 50 /\ score < 75 THEN "warning"
    ELSE "info"

\* C21: every AlertRecord created by the pipeline has type close_approach and
\* the severity of the score of the object it was created for (danger from 75,
\* warning from 50 to 74, info below), which is the score the record carries.
C21_Severity ==
    /\ \A al \in alerts :
          /\ al.type = "close_approach"
          /\ al.severity = StatedSeverity(al.riskScore)
    /\ \A r \in Runs : \A e \in run[r].trail :
          e.result = "created" =>
              \E al \in run[r].created :
                  /\ e.made = {al._id}
                  /\ al.type = "close_approach"
                  /\ al.riskScore = e.asteroid.riskScore
                  /\ al.severity = StatedSeverity(e.asteroid.riskScore)

\* the store holds an alert of severity danger (score 82) and one of severity
\* warning (score 74)
C21_Witness ==
    \E x, y \in alerts :
        /\ x.severity = "danger" /\ x.riskScore = 82
        /\ y.severity = "warning" /\ y.riskScore = 74

----------------------------------------------------------------------------
(* Properties of the snapshot store *)

\* C22: every stored snapshot expires 24 hours after it was last fetched; a
\* re-fetch never moves fetchedAt or expiresAt backward and moves both to the
\* time of the upsert; and a snapshot leaves the store only in a step in which
\* time passes and its expiresAt is reached, never in a step of a run.
C22_Expiry ==
    /\ [](\A x \in AstIds :
            Has(asteroids[x]) =>
                /\ Val(asteroids[x]).expiresAt = Val(asteroids[x]).lastFetchedAt + TicksPerDay
                /\ Val(asteroids[x]).lastFetchedAt <= clock)
    /\ [][\A x \in AstIds :
            /\ (Has(asteroids[x]) /\ Has(asteroids'[x]) /\ asteroids'[x] # asteroids[x]) =>
                  /\ Val(asteroids'[x]).lastFetchedAt = clock
                  /\ Val(asteroids'[x]).lastFetchedAt >= Val(asteroids[x]).lastFetchedAt
                  /\ Val(asteroids'[x]).expiresAt >= Val(asteroids[x]).expiresAt
            /\ (Has(asteroids[x]) /\ ~Has(asteroids'[x])) =>
                  /\ clock' = clock + 1 /\ run' = run
                  /\ Val(asteroids[x]).expiresAt <= clock']_vars

\* a2 was stored at time 0 and re-fetched later: it now expires 24 hours after
\* the re-fetch
C22_Witness ==
    /\ Has(asteroids["a2"])
    /\ Val(asteroids["a2"]).createdAt = 0
    /\ Val(asteroids["a2"]).lastFetchedAt > 0
    /\ Val(asteroids["a2"]).expiresAt = Val(asteroids["a2"]).lastFetchedAt + TicksPerDay

----------------------------------------------------------------------------
(* Properties of the sweep *)

\* t lies in the window of the sweep of run st
InWindow(st, t) == st.now <= t /\ t <= st.now + st.daysAhead * TicksPerDay

\* C23: a sweep with lookahead W days started at time now handles, and creates
\* alerts and pushes for, only objects whose closest-approach time t satisfies
\* now <= t <= now + W days.
C23_Window ==
    \A r \in Runs :
        /\ \A e \in run[r].trail : InWindow(run[r], e.asteroid.closeApproachDate)
        /\ \A al \in run[r].created :
              /\ InWindow(run[r], al.eventDate)
              /\ \E e \in run[r].trail :
                    /\ e.made = {al._id}
                    /\ e.asteroid.neo_reference_id = al.asteroidId
                    /\ e.asteroid.closeApproachDate = al.eventDate
        /\ \A ev \in emitted :
              (ev.event = "CLOSE_APPROACH_ALERT" /\ ev.by = run[r].id) =>
                  \E al \in run[r].created : al._id = ev.alertId

\* a 1-day sweep started at time 2 has alerted about a1 while a2, whose
\* approach has passed, is in the store and was not handled
C23_Witness ==
    \E r \in Runs :
        /\ run[r].daysAhead = 1 /\ run[r].now = TicksPerDay
        /\ \E al \in run[r].created : al.asteroidId = "a1"
        /\ Has(asteroids["a2"]) /\ Val(asteroids["a2"]).closeApproachDate < run[r].now
        /\ \A e \in run[r].trail : e.asteroid.neo_reference_id # "a2"

\* C24: in one sweep, for each object, no user is a candidate twice: the
\* watcher set and the threshold-matcher set are disjoint, also when users
\* change their watch lists while the sweep is running.
C24_Disjoint ==
    \A r \in Runs :
        \A i, j \in 1 .. Len(run[r].usersToAlert) :
            i # j => run[r].usersToAlert[i]._id # run[r].usersToAlert[j]._id

\* the conditions of the personal filter on candidate e, one by one, as the
\* filter applies them (a setting of 0 switches its condition off)
DiameterPasses(e) ==
    \/ e.user.alertSettings.minDiameter = 0
    \/ ~Has(e.asteroid.estimatedDiameterMax)
    \/ Val(e.asteroid.estimatedDiameterMax) >= e.user.alertSettings.minDiameter
DistancePasses(e) ==
    \/ e.user.alertSettings.maxDistance = 0
    \/ e.asteroid.missDistanceLunar <= e.user.alertSettings.maxDistance
RiskPasses(e) ==
    \/ e.user.alertSettings.riskThreshold = 0
    \/ e.asteroid.riskScore >= e.user.alertSettings.riskThreshold

C26_SweepFrame ==
    /\ [](\A r \in Runs :
            run[r].kind = "sweep" =>
                /\ run[r].pc \in SweepPcs \cup {"done"}
                /\ run[r].stats = ZeroStats /\ run[r].neoData = <<>>)
    /\ [][\A r \in Runs :
            (run[r].pc \in SweepPcs /\ run'[r] # run[r]) =>
                /\ asteroids' = asteroids
                /\ users' = users
                /\ alerts \subseteq alerts'
                /\ \A al \in alerts' \ alerts : ~al.isRead /\ al \in run'[r].created
                /\ run'[r].pc \in SweepPcs \cup {"done"}
                /\ run'[r].stats = run[r].stats
                /\ \A ev \in emitted' \ emitted : ev.event = "CLOSE_APPROACH_ALERT"]_vars

\* a periodic sweep has added an alert to a store that already held one
C26_Witness ==
    \E r \in Runs :
        /\ run[r].kind = "sweep" /\ run[r].pc = "done"
        /\ \E al \in run[r].created : al \in alerts /\ ~al.isRead
        /\ \E old \in alerts : old \notin run[r].created

\* the close-approach-alert events published so far
AlertPushes == { ev \in emitted : ev.event = "CLOSE_APPROACH_ALERT" }

\* ev1 was published before ev2: runs do not overlap, so the events of a run
\* started earlier come first, and within a run alerts are numbered in order
PublishedBefore(ev1, ev2) ==
    \/ ev1.by < ev2.by
    \/ ev1.by = ev2.by /\ ev1.alertId[2] < ev2.alertId[2]

\* ev2 was published for the pair of ev1, after it and less than 24 hours later
AgainWithinDay(ev1, ev2) ==
    /\ ev1.room = ev2.room /\ ev1.asteroidId = ev2.asteroidId
    /\ PublishedBefore(ev1, ev2)
    /\ ev1.timestamp <= ev2.timestamp
    /\ ev2.timestamp - ev1.timestamp < TicksPerDay

----------------------------------------------------------------------------
(* C28: objects that are not flagged hazardous *)

\* the hazardous flag of the object, in whichever shape it comes, is false
FlagFalse(neo) ==
    Coalesce(neo.is_potentially_hazardous_asteroid, neo.isPotentiallyHazardous) = Some(FALSE)

\* C28: an object whose hazardous flag is false scores at most 60 whatever its
\* diameter, distance and velocity; it is never categorised high, neither by
\* the scorer nor in its stored document, it is never counted in highRisk and
\* no NEW_HAZARDOUS_ASTEROID broadcast is made for it.
C28_NotHazardous ==
    FlagFalse(neoIn) =>
        /\ Has(risk) => Val(risk).score <= 60 /\ Val(risk).category # "high"
        /\ \A x \in AstIds :
              Has(asteroids[x]) =>
                  Val(asteroids[x]).riskScore <= 60 /\ Val(asteroids[x]).riskCategory # "high"
        /\ \A r \in Runs : run[r].stats.highRisk = 0
        /\ \A ev \in emitted : ev.event # "NEW_HAZARDOUS_ASTEROID"

\* an object whose flag is false reaches the score 60, and has been through
\* the batch and stored with it
C28_Witness ==
    /\ FlagFalse(neoIn)
    /\ Has(risk) /\ Val(risk).score = 60
    /\ run[1].pc = "emit" /\ run[1].stats.processed = 1
    /\ Has(asteroids[neoIn.neo_reference_id])
    /\ Val(asteroids[neoIn.neo_reference_id]).riskScore = 60

----------------------------------------------------------------------------
(* C29: the count a sweep returns *)

\* C29: the alertsSent a sweep returns equals the number of AlertRecords that
\* sweep created, on every path, also when a store query fails part-way
\* through the sweep after alerts were created.
C29_CountReturned ==
    \A r \in Runs :
        run[r].pc = "done" => run[r].alertsSent = Cardinality(run[r].created)

----------------------------------------------------------------------------
(* C30: who receives the events of a user's channel *)

\* C30: runs do not overlap.  An event published on the channel user:<U> is
\* received only by clients acting for U: whatever socket events a client
\* that does not act for U sends, it never receives a close-approach alert,
\* nor any other event, of U's channel.
C30_PrivateChannel ==
    \A c \in Clients : \A ev \in received[c] :
        ev.event \in {"CLOSE_APPROACH_ALERT", "watchlist_updated"} =>
            ev.room = UserRoom(ClientUser(c))

====
